---- MODULE Spec2Model ----
(***************************************************************************)
(* A model of the BlackJack appliance's game engine:                       *)
(* src/game/card.rs, src/game/deck.rs, src/game/hand.rs and                *)
(* src/game/state.rs.  The game is the BlackJackGame struct; every public  *)
(* method is one atomic action (the engine is synchronous, no method       *)
(* awaits).  The card displays of src/hardware/card_displays.rs, the       *)
(* multiplexer of src/hardware/i2c_mux.rs and the hand refreshes of        *)
(* src/ui/card_ui.rs are modelled one bus write per step; the bitmap       *)
(* parser of src/hardware/pbm_image.rs is modelled on sequences of bytes.  *)
(***************************************************************************)
EXTENDS Integers, Sequences, FiniteSets, TLC

(***************************************************************************)
(* Bounds of the model.                                                    *)
(***************************************************************************)
\* The shuffle seeds explored are the microsecond readings 0..MaxSeed and
\* the readings 2^64-1-MaxSeed..2^64-1 at the top of the u64 range, where
\* seed.wrapping_mul(i) wraps.
MaxSeed == 2

\* The orchestration loop is explored for the seeds 0..MaxLoopSeed and
\* 2^64-1-MaxLoopSeed..2^64-1.
MaxLoopSeed == 12

\* The largest channel number asked of the multiplexer; 8 and above are out
\* of its range.
MaxChannel == 9

\* PbmSpec parses the encodings of the pixel grids of up to this size
MaxBitmapWidth == 3

MaxBitmapHeight == 2

\* the longest generated P1 payload, in characters
MaxPayloadLen == 3

(***************************************************************************)
(* card.rs                                                                 *)
(***************************************************************************)
Suit == <<"Hearts", "Diamonds", "Clubs", "Spades">>

Value == <<"Ace", "Two", "Three", "Four", "Five", "Six", "Seven", "Eight",
           "Nine", "Ten", "Jack", "Queen", "King">>

SuitSet == {Suit[k] : k \in 1..Len(Suit)}

ValueSet == {Value[k] : k \in 1..Len(Value)}

Card == [suit : SuitSet, value : ValueSet, is_face_up : BOOLEAN]

Card_new(suit, value, is_face_up) ==
    [suit |-> suit, value |-> value, is_face_up |-> is_face_up]

blackjack_value(card) ==
    CASE card.value = "Ace"   -> 11
      [] card.value = "Two"   -> 2
      [] card.value = "Three" -> 3
      [] card.value = "Four"  -> 4
      [] card.value = "Five"  -> 5
      [] card.value = "Six"   -> 6
      [] card.value = "Seven" -> 7
      [] card.value = "Eight" -> 8
      [] card.value = "Nine"  -> 9
      [] card.value \in {"Ten", "Jack", "Queen", "King"} -> 10

set_face_up(card, is_face_up) == [card EXCEPT !.is_face_up = is_face_up]

(***************************************************************************)
(* deck.rs.  A u64 is four 16-bit limbs, least significant first, so that  *)
(* the wrapping product of the seed is computed at its full width.         *)
(***************************************************************************)
LimbBase == 2^16

\* seed.wrapping_mul(i as u64) for a small multiplier i
wrapping_mul(x, i) ==
    LET p1 == x[1] * i
        p2 == x[2] * i + (p1 \div LimbBase)
        p3 == x[3] * i + (p2 \div LimbBase)
        p4 == x[4] * i + (p3 \div LimbBase)
    IN  <<p1 % LimbBase, p2 % LimbBase, p3 % LimbBase, p4 % LimbBase>>

\* x % m for a u64 x and a small modulus m
U64Mod(x, m) ==
    LET r4 == x[4] % m
        r3 == (r4 * LimbBase + x[3]) % m
        r2 == (r3 * LimbBase + x[2]) % m
    IN  (r2 * LimbBase + x[1]) % m

\* Instant::now().as_micros() as u64: the readings the model explores
SeedsUpTo(n) ==
    {<<k, 0, 0, 0>> : k \in 0..n}
    \cup {<<LimbBase - 1 - k, LimbBase - 1, LimbBase - 1, LimbBase - 1>> :
             k \in 0..n}

\* a clock reading whose shuffle deals a blackjack to both sides
PushSeed == <<663, 0, 0, 0>>

Seeds == SeedsUpTo(MaxSeed) \cup {PushSeed}

\* a clock reading whose shuffle lets the player and the dealer each hold
\* four low cards, so that both draw once more at the 4-card cap
LongSeed == <<47, 0, 0, 0>>

LoopSeeds == SeedsUpTo(MaxLoopSeed) \cup {PushSeed, LongSeed}

\* the 52 cards in the order the nested loops of Deck::new push them
OrderedDeck ==
    [n \in 1..(Len(Suit) * Len(Value)) |->
        Card_new(Suit[((n - 1) \div Len(Value)) + 1],
                 Value[((n - 1) % Len(Value)) + 1], TRUE)]

\* cards.swap(i, j), indices counted from 0 as in the source
swap(cards, i, j) ==
    [cards EXCEPT ![i + 1] = cards[j + 1], ![j + 1] = cards[i + 1]]

\* the swap index of shuffle's round i
shuffle_index(seed, i) == U64Mod(wrapping_mul(seed, i), i + 1)

RECURSIVE shuffle_from(_, _, _)
shuffle_from(cards, seed, i) ==
    IF i < 1 THEN cards
    ELSE shuffle_from(swap(cards, i, shuffle_index(seed, i)), seed, i - 1)

\* for i in (1..cards.len()).rev()
shuffle(cards, seed) == shuffle_from(cards, seed, Len(cards) - 1)

Deck_new(seed) == shuffle(OrderedDeck, seed)

\* the decks of all explored seeds, computed once
DeckOf == [seed \in Seeds \cup LoopSeeds |-> Deck_new(seed)]

\* a draw that reads the last card without removing it
draw_keeps(cards) ==
    IF Len(cards) = 0
    THEN [some |-> FALSE, cards |-> cards]
    ELSE [some |-> TRUE, card |-> cards[Len(cards)], cards |-> cards]

\* Deck::draw: Vec::pop, None on an empty deck
draw(cards) ==
    IF Len(cards) = 0
    THEN [some |-> FALSE, cards |-> cards]
    ELSE [some |-> TRUE, card |-> cards[Len(cards)],
          cards |-> SubSeq(cards, 1, Len(cards) - 1)]

(***************************************************************************)
(* hand.rs.  A hand is the sequence of its cards.                          *)
(***************************************************************************)
\* capacity of the heapless Vec behind a Hand
HandCapacity == 10

\* the display limit enforced by add_card
MaxHandCards == 4

Hand_new == <<>>

\* an add_card without the display limit
add_card_uncapped(cards, card) ==
    IF Len(cards) >= HandCapacity
    THEN [ok |-> FALSE, cards |-> cards, panic |-> TRUE]
    ELSE [ok |-> TRUE, cards |-> Append(cards, card), panic |-> FALSE]

\* Hand::add_card: ok is the returned bool; panic is the unwrap of a push
\* onto a full Vec
add_card(cards, card) ==
    IF Len(cards) >= MaxHandCards
    THEN [ok |-> FALSE, cards |-> cards, panic |-> FALSE]
    ELSE IF Len(cards) >= HandCapacity
         THEN [ok |-> FALSE, cards |-> cards, panic |-> TRUE]
         ELSE [ok |-> TRUE, cards |-> Append(cards, card), panic |-> FALSE]

\* the first loop of Hand::value: every card summed, aces as 11
RECURSIVE raw_sum(_)
raw_sum(cards) ==
    IF cards = <<>> THEN 0
    ELSE (IF Head(cards).value = "Ace" THEN 11 ELSE blackjack_value(Head(cards)))
         + raw_sum(Tail(cards))

RECURSIVE count_aces(_)
count_aces(cards) ==
    IF cards = <<>> THEN 0
    ELSE (IF Head(cards).value = "Ace" THEN 1 ELSE 0) + count_aces(Tail(cards))

\* a demotion loop that already runs at a total of 21
RECURSIVE demote_at_21(_, _)
demote_at_21(total, num_aces) ==
    IF total >= 21 /\ num_aces > 0 THEN demote_at_21(total - 10, num_aces - 1)
    ELSE total

\* the second loop of Hand::value: while value > 21 && num_aces > 0
RECURSIVE demote(_, _)
demote(total, num_aces) ==
    IF total > 21 /\ num_aces > 0 THEN demote(total - 10, num_aces - 1)
    ELSE total

\* Hand::value (a u8; at most 4 cards of at most 11 each, so it never wraps)
value(cards) == demote(raw_sum(cards), count_aces(cards))

is_bust(cards) == value(cards) > 21

\* a blackjack test that looks at the total only
is_blackjack_any_count(cards) == value(cards) = 21

is_blackjack(cards) == Len(cards) = 2 /\ value(cards) = 21

card_count(cards) == Len(cards)

reveal_all(cards) == [k \in 1..Len(cards) |-> set_face_up(cards[k], TRUE)]

(***************************************************************************)
(* state.rs.  A game g is the record of the fields of BlackJackGame, plus  *)
(* panicked: a panic has unwound the program.  Every method maps a game to *)
(* [game |-> the game after the call, ret |-> the value returned].         *)
(***************************************************************************)
GameState == {"WaitingForStart", "DealerDealing", "PlayerTurn", "DealerTurn",
              "DealerRevealing", "DealerDrawing", "GameOver"}

GameResult == {"PlayerWins", "DealerWins", "Push", "InProgress"}

\* BlackJackGame::new
BlackJackGame_new(seed) ==
    [deck |-> DeckOf[seed], player_hand |-> Hand_new, dealer_hand |-> Hand_new,
     state |-> "WaitingForStart", result |-> "InProgress",
     dealer_cards_revealed |-> FALSE, panicked |-> FALSE]

\* a start_game that forgets to reset dealer_cards_revealed
start_game_keeps_revealed(g, seed) ==
    [game |-> [g EXCEPT !.deck = DeckOf[seed],
                        !.player_hand = Hand_new,
                        !.dealer_hand = Hand_new,
                        !.state = "DealerDealing",
                        !.result = "InProgress"],
     ret |-> "unit"]

start_game(g, seed) ==
    [game |-> [g EXCEPT !.deck = DeckOf[seed],
                        !.player_hand = Hand_new,
                        !.dealer_hand = Hand_new,
                        !.state = "DealerDealing",
                        !.result = "InProgress",
                        !.dealer_cards_revealed = FALSE],
     ret |-> "unit"]

\* if let Some(card) = self.deck.draw() { hand.add_card(card); }
\* the bool returned by add_card is dropped
deal_card(cards, d) ==
    IF d.some THEN add_card(cards, d.card)
    ELSE [ok |-> FALSE, cards |-> cards, panic |-> FALSE]

\* if let Some(mut card) = self.deck.draw() { card.set_face_up(up); ... }
deal_card_facing(cards, d, up) ==
    IF d.some THEN add_card(cards, set_face_up(d.card, up))
    ELSE [ok |-> FALSE, cards |-> cards, panic |-> FALSE]

\* a blackjack check that pays the player without looking at the dealer
check_for_blackjack_no_push(g) ==
    IF is_blackjack(g.player_hand)
    THEN [g EXCEPT !.dealer_hand = reveal_all(g.dealer_hand),
                   !.dealer_cards_revealed = TRUE,
                   !.result = "PlayerWins",
                   !.state = "GameOver"]
    ELSE [g EXCEPT !.state = "PlayerTurn"]

\* the "Check for BlackJack" tail of deal_initial_cards
check_for_blackjack(g) ==
    IF is_blackjack(g.player_hand)
    THEN LET revealed == reveal_all(g.dealer_hand)
         IN  [g EXCEPT !.dealer_hand = revealed,
                       !.dealer_cards_revealed = TRUE,
                       !.result = IF is_blackjack(revealed) THEN "Push"
                                  ELSE "PlayerWins",
                       !.state = "GameOver"]
    ELSE [g EXCEPT !.state = "PlayerTurn"]

\* a deal that gives the player the first two cards popped and the dealer
\* the next two
deal_initial_cards_player_first(g) ==
    LET d1 == draw(g.deck)
        d2 == draw(d1.cards)
        d3 == draw(d2.cards)
        d4 == draw(d3.cards)
        p2 == deal_card(deal_card(g.player_hand, d1).cards, d2)
        h2 == deal_card_facing(deal_card_facing(g.dealer_hand, d3, TRUE).cards,
                               d4, FALSE)
    IN  [game |-> check_for_blackjack([g EXCEPT !.deck = d4.cards,
                                                !.player_hand = p2.cards,
                                                !.dealer_hand = h2.cards]),
         ret |-> "unit"]

deal_initial_cards(g) ==
    LET d1 == draw(g.deck)
        p1 == deal_card(g.player_hand, d1)
        d2 == draw(d1.cards)
        h1 == deal_card_facing(g.dealer_hand, d2, TRUE)
        d3 == draw(d2.cards)
        p2 == deal_card(p1.cards, d3)
        d4 == draw(d3.cards)
        h2 == deal_card_facing(h1.cards, d4, FALSE)
        dealt == [g EXCEPT !.deck = d4.cards,
                           !.player_hand = p2.cards,
                           !.dealer_hand = h2.cards]
    IN  IF p1.panic THEN
            [game |-> [g EXCEPT !.deck = d1.cards, !.panicked = TRUE],
             ret |-> "panic"]
        ELSE IF h1.panic THEN
            [game |-> [g EXCEPT !.deck = d2.cards, !.player_hand = p1.cards,
                                !.panicked = TRUE],
             ret |-> "panic"]
        ELSE IF p2.panic THEN
            [game |-> [g EXCEPT !.deck = d3.cards, !.player_hand = p1.cards,
                                !.dealer_hand = h1.cards, !.panicked = TRUE],
             ret |-> "panic"]
        ELSE IF h2.panic THEN
            [game |-> [g EXCEPT !.deck = d4.cards, !.player_hand = p2.cards,
                                !.dealer_hand = h1.cards, !.panicked = TRUE],
             ret |-> "panic"]
        ELSE [game |-> check_for_blackjack(dealt), ret |-> "unit"]

\* a hit that shows the dealer's cards when the player busts
player_hit_reveals_on_bust(g) ==
    IF g.state # "PlayerTurn" THEN [game |-> g, ret |-> "false"]
    ELSE
      LET d == draw(g.deck)
          a == add_card(g.player_hand, d.card)
      IN  IF ~d.some THEN [game |-> g, ret |-> "false"]
          ELSE IF a.panic THEN
              [game |-> [g EXCEPT !.deck = d.cards, !.panicked = TRUE],
               ret |-> "panic"]
          ELSE IF ~a.ok THEN
              [game |-> [g EXCEPT !.deck = d.cards, !.state = "DealerTurn"],
               ret |-> "true"]
          ELSE IF is_bust(a.cards) THEN
              [game |-> [g EXCEPT !.deck = d.cards, !.player_hand = a.cards,
                                  !.dealer_hand = reveal_all(g.dealer_hand),
                                  !.dealer_cards_revealed = TRUE,
                                  !.result = "DealerWins",
                                  !.state = "GameOver"],
               ret |-> "true"]
          ELSE
              [game |-> [g EXCEPT !.deck = d.cards, !.player_hand = a.cards],
               ret |-> "true"]

\* a hit that reports a card refused at the 4-card cap as a failed hit
player_hit_refused_at_cap(g) ==
    IF g.state # "PlayerTurn" THEN [game |-> g, ret |-> "false"]
    ELSE
      LET d == draw(g.deck)
          a == add_card(g.player_hand, d.card)
      IN  IF ~d.some THEN [game |-> g, ret |-> "false"]
          ELSE IF a.panic THEN
              [game |-> [g EXCEPT !.deck = d.cards, !.panicked = TRUE],
               ret |-> "panic"]
          ELSE IF ~a.ok THEN
              [game |-> [g EXCEPT !.deck = d.cards, !.state = "DealerTurn"],
               ret |-> "false"]
          ELSE IF is_bust(a.cards) THEN
              [game |-> [g EXCEPT !.deck = d.cards, !.player_hand = a.cards,
                                  !.result = "DealerWins",
                                  !.state = "GameOver"],
               ret |-> "true"]
          ELSE
              [game |-> [g EXCEPT !.deck = d.cards, !.player_hand = a.cards],
               ret |-> "true"]

player_hit(g) ==
    IF g.state # "PlayerTurn" THEN [game |-> g, ret |-> "false"]
    ELSE
      LET d == draw(g.deck)
          a == add_card(g.player_hand, d.card)
      IN  IF ~d.some THEN [game |-> g, ret |-> "false"]
          ELSE IF a.panic THEN
              [game |-> [g EXCEPT !.deck = d.cards, !.panicked = TRUE],
               ret |-> "panic"]
          ELSE IF ~a.ok THEN
              \* the card popped is dropped: automatic stand
              [game |-> [g EXCEPT !.deck = d.cards, !.state = "DealerTurn"],
               ret |-> "true"]
          ELSE IF is_bust(a.cards) THEN
              [game |-> [g EXCEPT !.deck = d.cards, !.player_hand = a.cards,
                                  !.result = "DealerWins",
                                  !.state = "GameOver"],
               ret |-> "true"]
          ELSE
              [game |-> [g EXCEPT !.deck = d.cards, !.player_hand = a.cards],
               ret |-> "true"]

player_stand(g) ==
    IF g.state # "PlayerTurn" THEN [game |-> g, ret |-> "false"]
    ELSE [game |-> [g EXCEPT !.state = "DealerTurn"], ret |-> "true"]

\* a start_dealer_turn without its state guard
start_dealer_turn_unguarded(g) ==
    [game |-> [g EXCEPT !.state = "DealerRevealing"], ret |-> "unit"]

start_dealer_turn(g) ==
    IF g.state # "DealerTurn" THEN [game |-> g, ret |-> "unit"]
    ELSE [game |-> [g EXCEPT !.state = "DealerRevealing"], ret |-> "unit"]

\* a comparison that records no result for equal totals
determine_winner_skips_ties(g) ==
    LET player_total == value(g.player_hand)
        dealer_total == value(g.dealer_hand)
    IN  [g EXCEPT !.result = IF player_total > dealer_total THEN "PlayerWins"
                             ELSE IF player_total < dealer_total
                                  THEN "DealerWins"
                                  ELSE g.result]

\* a comparison that gives equal totals to the dealer
determine_winner_dealer_takes_ties(g) ==
    [g EXCEPT !.result = IF value(g.player_hand) > value(g.dealer_hand)
                         THEN "PlayerWins" ELSE "DealerWins"]

\* match player_value.cmp(&dealer_value)
determine_winner(g) ==
    LET player_total == value(g.player_hand)
        dealer_total == value(g.dealer_hand)
    IN  [g EXCEPT !.result = IF player_total > dealer_total THEN "PlayerWins"
                             ELSE IF player_total < dealer_total
                                  THEN "DealerWins"
                                  ELSE "Push"]

\* a reveal that sends a dealer standing on exactly 17 to draw
reveal_dealer_cards_draws_on_17(g) ==
    IF g.state # "DealerRevealing" THEN [game |-> g, ret |-> "unit"]
    ELSE
      LET shown == [g EXCEPT !.dealer_hand = reveal_all(g.dealer_hand),
                             !.dealer_cards_revealed = TRUE]
      IN  IF value(shown.dealer_hand) <= 17
          THEN [game |-> [shown EXCEPT !.state = "DealerDrawing"],
                ret |-> "unit"]
          ELSE [game |-> determine_winner([shown EXCEPT !.state = "GameOver"]),
                ret |-> "unit"]

reveal_dealer_cards(g) ==
    IF g.state # "DealerRevealing" THEN [game |-> g, ret |-> "unit"]
    ELSE
      LET shown == [g EXCEPT !.dealer_hand = reveal_all(g.dealer_hand),
                             !.dealer_cards_revealed = TRUE]
      IN  IF value(shown.dealer_hand) < 17
          THEN [game |-> [shown EXCEPT !.state = "DealerDrawing"],
                ret |-> "unit"]
          ELSE [game |-> determine_winner([shown EXCEPT !.state = "GameOver"]),
                ret |-> "unit"]

dealer_needs_card(g) ==
    g.state = "DealerDrawing" /\ value(g.dealer_hand) < 17

\* a dealer that stands after any card that does not bust it
dealer_draw_card_once(g) ==
    IF g.state # "DealerDrawing" THEN [game |-> g, ret |-> "false"]
    ELSE IF value(g.dealer_hand) >= 17 THEN
        [game |-> determine_winner([g EXCEPT !.state = "GameOver"]),
         ret |-> "false"]
    ELSE
      LET d == draw(g.deck)
          a == add_card(g.dealer_hand, d.card)
          drawn == [g EXCEPT !.deck = d.cards, !.dealer_hand = a.cards]
      IN  IF ~d.some THEN [game |-> g, ret |-> "false"]
          ELSE IF a.panic THEN
              [game |-> [g EXCEPT !.deck = d.cards, !.panicked = TRUE],
               ret |-> "panic"]
          ELSE IF ~a.ok THEN
              [game |-> determine_winner([g EXCEPT !.deck = d.cards,
                                                   !.state = "GameOver"]),
               ret |-> "true"]
          ELSE IF is_bust(a.cards) THEN
              [game |-> [drawn EXCEPT !.result = "PlayerWins",
                                      !.state = "GameOver"],
               ret |-> "true"]
          ELSE [game |-> determine_winner([drawn EXCEPT !.state = "GameOver"]),
                ret |-> "true"]

dealer_draw_card(g) ==
    IF g.state # "DealerDrawing" THEN [game |-> g, ret |-> "false"]
    ELSE IF value(g.dealer_hand) >= 17 THEN
        [game |-> determine_winner([g EXCEPT !.state = "GameOver"]),
         ret |-> "false"]
    ELSE
      LET d == draw(g.deck)
          a == add_card(g.dealer_hand, d.card)
          drawn == [g EXCEPT !.deck = d.cards, !.dealer_hand = a.cards]
      IN  IF ~d.some THEN [game |-> g, ret |-> "false"]
          ELSE IF a.panic THEN
              [game |-> [g EXCEPT !.deck = d.cards, !.panicked = TRUE],
               ret |-> "panic"]
          ELSE IF ~a.ok THEN
              \* the card popped is dropped: automatic stand
              [game |-> determine_winner([g EXCEPT !.deck = d.cards,
                                                   !.state = "GameOver"]),
               ret |-> "true"]
          ELSE IF is_bust(a.cards) THEN
              [game |-> [drawn EXCEPT !.result = "PlayerWins",
                                      !.state = "GameOver"],
               ret |-> "true"]
          ELSE IF value(a.cards) >= 17 THEN
              [game |-> determine_winner([drawn EXCEPT !.state = "GameOver"]),
               ret |-> "true"]
          ELSE [game |-> drawn, ret |-> "true"]

player_value(g) == value(g.player_hand)

\* the branch of dealer_value that sums the face-up cards only
RECURSIVE face_up_sum(_)
face_up_sum(cards) ==
    IF cards = <<>> THEN 0
    ELSE (IF Head(cards).is_face_up THEN blackjack_value(Head(cards)) ELSE 0)
         + face_up_sum(Tail(cards))

dealer_value(g) ==
    IF ~g.dealer_cards_revealed
       /\ (g.state = "PlayerTurn" \/ g.state = "DealerDealing")
    THEN face_up_sum(g.dealer_hand)
    ELSE value(g.dealer_hand)

player_has_21(g) ==
    [game |-> [g EXCEPT !.state = "DealerTurn"], ret |-> "unit"]

(***************************************************************************)
(* hardware/pbm_image.rs.  The data is a sequence of bytes, positions      *)
(* count from 0 as in the source.  A parsed image is                       *)
(* [ok |-> TRUE, width, height, pixels], a parse error [ok |-> FALSE] with *)
(* the PBMError in the field error.                                        *)
(***************************************************************************)
PBMError(error) ==
    [ok |-> FALSE, error |-> error, width |-> 0, height |-> 0, pixels |-> <<>>]

\* data[pos]
byte_at(data, pos) == data[pos + 1]

is_whitespace(byte) == byte = 32 \/ byte = 9 \/ byte = 10 \/ byte = 13

\* while pos < data.len() && data[pos] != b'\n' && data[pos] != b'\r'
RECURSIVE skip_comment_line(_, _)
skip_comment_line(data, pos) ==
    IF pos < Len(data) /\ byte_at(data, pos) # 10 /\ byte_at(data, pos) # 13
    THEN skip_comment_line(data, pos + 1)
    ELSE pos

\* while pos < data.len() && (data[pos] == b'\n' || data[pos] == b'\r')
RECURSIVE skip_newlines(_, _)
skip_newlines(data, pos) ==
    IF pos < Len(data) /\ (byte_at(data, pos) = 10 \/ byte_at(data, pos) = 13)
    THEN skip_newlines(data, pos + 1)
    ELSE pos

RECURSIVE skip_whitespace_and_comments(_, _)
skip_whitespace_and_comments(data, pos) ==
    IF pos >= Len(data) THEN pos
    ELSE IF is_whitespace(byte_at(data, pos))
         THEN skip_whitespace_and_comments(data, pos + 1)
    ELSE IF byte_at(data, pos) = 35
         THEN skip_whitespace_and_comments(
                  data, skip_newlines(data, skip_comment_line(data, pos)))
    ELSE pos

\* while end_pos < data.len() && data[end_pos] is a digit
RECURSIVE digits_end(_, _)
digits_end(data, end_pos) ==
    IF end_pos < Len(data) /\ byte_at(data, end_pos) >= 48
       /\ byte_at(data, end_pos) <= 57
    THEN digits_end(data, end_pos + 1)
    ELSE end_pos

\* the decimal value of data[start_pos..end_pos]
RECURSIVE decimal(_, _, _)
decimal(data, start_pos, end_pos) ==
    IF end_pos = start_pos THEN 0
    ELSE 10 * decimal(data, start_pos, end_pos - 1)
         + (byte_at(data, end_pos - 1) - 48)

\* Ok((number, end_pos)), or InvalidFormat if there is no digit or the
\* number does not fit a u16
parse_number(data, pos) ==
    LET end_pos == digits_end(data, pos)
        number == decimal(data, pos, end_pos)
    IN  IF end_pos = pos \/ number > 65535
        THEN [ok |-> FALSE, number |-> 0, pos |-> pos]
        ELSE [ok |-> TRUE, number |-> number, pos |-> end_pos]

\* a P1 reader that takes '0' and '1' only
RECURSIVE parse_p1_data_binary(_, _, _, _)
parse_p1_data_binary(data, pos, pixel_idx, total_pixels) ==
    IF pixel_idx = total_pixels THEN [ok |-> TRUE, pixels |-> <<>>]
    ELSE LET at == skip_whitespace_and_comments(data, pos)
         IN  IF at >= Len(data) THEN [ok |-> FALSE, pixels |-> <<>>]
             ELSE IF byte_at(data, at) \notin {48, 49}
                  THEN [ok |-> FALSE, pixels |-> <<>>]
             ELSE LET rest == parse_p1_data_binary(data, at + 1,
                                                   pixel_idx + 1, total_pixels)
                  IN  [ok |-> rest.ok,
                       pixels |-> IF rest.ok
                                  THEN <<byte_at(data, at) # 48>> \o rest.pixels
                                  ELSE <<>>]

\* the pixels from pixel_idx on; InvalidFormat if one is missing or is not
\* '0', '1' or '2'
RECURSIVE parse_p1_data(_, _, _, _)
parse_p1_data(data, pos, pixel_idx, total_pixels) ==
    IF pixel_idx = total_pixels THEN [ok |-> TRUE, pixels |-> <<>>]
    ELSE LET at == skip_whitespace_and_comments(data, pos)
         IN  IF at >= Len(data) THEN [ok |-> FALSE, pixels |-> <<>>]
             ELSE IF byte_at(data, at) \notin {48, 49, 50}
                  THEN [ok |-> FALSE, pixels |-> <<>>]
             ELSE LET rest == parse_p1_data(data, at + 1, pixel_idx + 1,
                                            total_pixels)
                  IN  [ok |-> rest.ok,
                       pixels |-> IF rest.ok
                                  THEN <<byte_at(data, at) # 48>> \o rest.pixels
                                  ELSE <<>>]

\* pixel (x, y) is bit 7 - x % 8 of byte pos + y * bytes_per_row + x / 8; a
\* byte beyond the data is InvalidFormat
parse_p4_data(data, pos, width, height) ==
    LET bytes_per_row == (width + 7) \div 8
        byte_pos(x, y) == pos + (y * bytes_per_row) + (x \div 8)
        bit_offset(x) == 7 - (x % 8)
    IN  IF \E y \in 0..(height - 1), x \in 0..(width - 1) :
               byte_pos(x, y) >= Len(data)
        THEN [ok |-> FALSE, pixels |-> <<>>]
        ELSE [ok |-> TRUE,
              pixels |->
                  [n \in 1..(width * height) |->
                      LET x == (n - 1) % width
                          y == (n - 1) \div width
                      IN  (byte_at(data, byte_pos(x, y))
                               \div 2^bit_offset(x)) % 2 = 1]]

\* the size check and the pixel data, the header read
parse_data(data, pos, format, width, height) ==
    LET total_pixels == width * height
        parsed == IF format = 49
                  THEN parse_p1_data(data, pos, 0, total_pixels)
                  ELSE parse_p4_data(data, pos, width, height)
    IN  IF total_pixels > 8192 THEN PBMError("BufferFull")
        ELSE IF ~parsed.ok THEN PBMError("InvalidFormat")
        ELSE [ok |-> TRUE, error |-> "none", width |-> width,
              height |-> height, pixels |-> parsed.pixels]

\* parse_number(data, pos)? for the height, then the skip before the data
after_height(data, format, width, h) ==
    IF ~h.ok THEN PBMError("InvalidFormat")
    ELSE parse_data(data, skip_whitespace_and_comments(data, h.pos), format,
                    width, h.number)

\* parse_number(data, pos)? for the width, then the skip before the height
after_width(data, format, w) ==
    IF ~w.ok THEN PBMError("InvalidFormat")
    ELSE after_height(data, format, w.number,
                      parse_number(data,
                                   skip_whitespace_and_comments(data, w.pos)))

PBMImage_new(data) ==
    LET start == skip_whitespace_and_comments(data, 0)
        format == byte_at(data, start + 1)
    IN  IF start + 1 >= Len(data) \/ byte_at(data, start) # 80
        THEN PBMError("InvalidFormat")
        ELSE IF format # 49 /\ format # 52 THEN PBMError("InvalidFormat")
        ELSE after_width(data, format,
                         parse_number(data,
                                      skip_whitespace_and_comments(
                                          data, start + 2)))

\* The bitmaps given to the parser by the displays.
\* "BM": no magic number
NoMagic == <<66, 77>>

\* "P4 128 65\n": more than 8192 pixels
TooLarge == <<80, 52, 32, 49, 50, 56, 32, 54, 53, 10>>

\* "P4\n8 2\n" 0xFF: the second row is missing
Truncated == <<80, 52, 10, 56, 32, 50, 10, \hFF>>

\* "P1 1 1 1": one pixel, on
OnePixel == <<80, 49, 32, 49, 32, 49, 32, 49>>

\* "P1\n# c\n2 1\n1 0": on at the left, off at the right
LeftHalf == <<80, 49, 10, 35, 32, 99, 10, 50, 32, 49, 10, 49, 32, 48>>

\* "P1 1 2 0 2": off at the top, on at the bottom
BottomHalf == <<80, 49, 32, 49, 32, 50, 32, 48, 32, 50>>

\* "P4\n9 2\n" 0xAA 0x80 0x54 0x80: two rows of nine pixels, each padded
\* to two bytes
Stripes == <<80, 52, 10, 57, 32, 50, 10, \hAA, \h80, \h54, \h80>>

\* "P4\n8 8\n" 0xAA 0x55 ...: the 8 x 8 checkerboard
Checkerboard ==
    <<80, 52, 10, 56, 32, 56, 10,
      \hAA, \h55, \hAA, \h55, \hAA, \h55, \hAA, \h55>>

ImageData ==
    {NoMagic, TooLarge, Truncated, OnePixel, LeftHalf, BottomHalf, Stripes,
     Checkerboard}

\* a pixel reader whose bounds exclude the last column and the last row
get_pixel_inside(image, x, y) ==
    IF x + 1 >= image.width \/ y + 1 >= image.height THEN FALSE
    ELSE image.pixels[y * image.width + x + 1]

get_pixel(image, x, y) ==
    IF x >= image.width \/ y >= image.height THEN FALSE
    ELSE LET index == y * image.width + x
         IN  IF index < Len(image.pixels) THEN image.pixels[index + 1]
             ELSE FALSE

\* a * b in u16 where arithmetic overflow wraps around
mul_u16(a, b) == (a * b) % 65536

\* the bits of one page byte from row_in_page upwards
RECURSIVE page_bits(_, _, _, _, _, _)
page_bits(image, target_width, target_height, page, col, row_in_page) ==
    IF row_in_page = 8 THEN 0
    ELSE LET y == page * 8 + row_in_page
             src_x == IF image.width > 0
                      THEN mul_u16(col, image.width) \div target_width ELSE 0
             src_y == IF image.height > 0
                      THEN mul_u16(y, image.height) \div target_height
                      ELSE 0
         IN  (IF y < target_height /\ get_pixel(image, src_x, src_y)
              THEN 2^row_in_page ELSE 0)
             + page_bits(image, target_width, target_height, page, col,
                         row_in_page + 1)

\* one byte per column and page, page after page
to_display_buffer(image, target_width, target_height) ==
    LET pages == (target_height + 7) \div 8
    IN  [n \in 1..(pages * target_width) |->
            page_bits(image, target_width, target_height,
                      (n - 1) \div target_width, (n - 1) % target_width, 0)]

\* col * self.width or y * self.height overflows u16 for a column or a row
\* of the target: the build with overflow checks panics there
to_display_buffer_overflows(image, target_width, target_height) ==
    \/ image.width > 0 /\ (target_width - 1) * image.width > 65535
    \/ image.height > 0 /\ (target_height - 1) * image.height > 65535

(***************************************************************************)
(* hardware/i2c_mux.rs and hardware/card_displays.rs.  An operation is the *)
(* sequence of the bus writes it issues when none fails; a failed write    *)
(* ends the operation, every write being followed by `?`.  A write is      *)
(* [address, bytes, target]: target is the position the call that issues   *)
(* it works on.                                                            *)
(***************************************************************************)
I2C_MUX_ADDRESS == \h70

OLED_ADDRESS == \h3C

DisplayPosition ==
    <<"DealerCard1", "DealerCard2", "DealerCard3", "DealerCard4",
      "PlayerCard1", "PlayerCard2", "PlayerCard3", "PlayerCard4">>

DisplayPositionSet == {DisplayPosition[k] : k \in 1..Len(DisplayPosition)}

\* no position: the channel is selected for no panel
NoPosition == "none"

\* *self as u8
channel(position) ==
    (CHOOSE k \in 1..Len(DisplayPosition) : DisplayPosition[k] = position) - 1

\* i2c.write(address, bytes)
write(address, bytes, target) ==
    [address |-> address, bytes |-> bytes, target |-> target]

\* a select that counts the channels from the top bit
select_channel_reversed(n, target) ==
    IF n > 7 THEN <<>>
    ELSE <<write(I2C_MUX_ADDRESS, <<2^(7 - n)>>, target)>>

\* a select that takes a channel above 7 for channel 7
select_channel_clamped(n, target) ==
    IF n > 7 THEN <<write(I2C_MUX_ADDRESS, <<2^7>>, target)>>
    ELSE <<write(I2C_MUX_ADDRESS, <<2^n>>, target)>>

\* TCA9548A::select_channel: one write of 1 << channel, none above 7
select_channel(n, target) ==
    IF n > 7 THEN <<>>
    ELSE <<write(I2C_MUX_ADDRESS, <<2^n>>, target)>>

\* the sequences seqs[1] \o ... \o seqs[Len(seqs)]
RECURSIVE concat(_)
concat(seqs) ==
    IF seqs = <<>> THEN <<>> ELSE Head(seqs) \o concat(Tail(seqs))

\* chunks of 32 bytes
chunks_of_32(buffer) ==
    [n \in 1..((Len(buffer) + 31) \div 32) |->
        SubSeq(buffer, 32 * (n - 1) + 1,
               IF 32 * n < Len(buffer) THEN 32 * n ELSE Len(buffer))]

\* the pieces of at most 16 bytes of the while loop of display_pbm_image
RECURSIVE chunks(_)
chunks(buffer) ==
    IF Len(buffer) = 0 THEN <<>>
    ELSE LET chunk_size == IF 16 < Len(buffer) THEN 16 ELSE Len(buffer)
         IN  <<SubSeq(buffer, 1, chunk_size)>>
             \o chunks(SubSeq(buffer, chunk_size + 1, Len(buffer)))

\* column address range 0..127, page address range 0..7
address_window(position) ==
    <<write(OLED_ADDRESS, <<\h00, \h21, \h00, \h7F>>, position),
      write(OLED_ADDRESS, <<\h00, \h22, \h00, \h07>>, position)>>

\* a clear that trusts the channel selected earlier
clear_display_raw_unselected(position) ==
    address_window(position)
    \o [n \in 1..(8 * 16) |->
           write(OLED_ADDRESS, <<\h40>> \o [k \in 1..16 |-> 0], position)]

clear_display_raw(position) ==
    select_channel(channel(position), position)
    \o address_window(position)
    \o [n \in 1..(8 * 16) |->
           write(OLED_ADDRESS, <<\h40>> \o [k \in 1..16 |-> 0], position)]

init_commands ==
    <<\hAE, \hD5, \h80, \hA8, \h3F, \hD3, \h00, \h40, \h8D, \h14, \h20, \h00,
      \hA1, \hC8, \hDA, \h12, \h81, \hCF, \hD9, \hF1, \hDB, \h40, \hA4, \hA6,
      \hAF>>

init_display(position) ==
    select_channel(channel(position), position)
    \o [n \in 1..Len(init_commands) |->
           write(OLED_ADDRESS, <<\h00, init_commands[n]>>, position)]
    \o clear_display_raw(position)

init_all_displays ==
    concat([k \in 1..Len(DisplayPosition) |-> init_display(DisplayPosition[k])])
    \o select_channel(0, NoPosition)

\* PBMImage::new(image_data) and image.to_display_buffer(128, 64) of every
\* bitmap shown: they depend on the bytes alone
Parsed == [image_data \in ImageData |-> PBMImage_new(image_data)]

DisplayBuffer ==
    [image_data \in ImageData |-> to_display_buffer(Parsed[image_data], 128, 64)]

display_pbm_image(image_data, position) ==
    LET image == Parsed[image_data]
        buffer == DisplayBuffer[image_data]
        pieces == chunks(buffer)
    IN  IF ~image.ok THEN <<>>
        ELSE select_channel(channel(position), position)
             \o address_window(position)
             \o [n \in 1..Len(pieces) |->
                    write(OLED_ADDRESS, <<\h40>> \o pieces[n], position)]

\* columns 20..108 of page 1, then a filled row of 89 bytes
draw_card_back_raw(position) ==
    <<write(OLED_ADDRESS, <<\h00, \h21, 20, 108>>, position),
      write(OLED_ADDRESS, <<\h00, \h22, 1, 1>>, position),
      write(OLED_ADDRESS, <<\h40>> \o [k \in 1..89 |-> \hFF], position)>>

\* the same window, then [0x40; 90] with bytes 1 and 89 set to 0xFF
draw_card_face_raw(position) ==
    <<write(OLED_ADDRESS, <<\h00, \h21, 20, 108>>, position),
      write(OLED_ADDRESS, <<\h00, \h22, 1, 1>>, position),
      write(OLED_ADDRESS,
            [k \in 1..90 |-> IF k - 1 = 1 \/ k - 1 = 89 THEN \hFF ELSE \h40],
            position)>>

display_card(card, position) ==
    select_channel(channel(position), position)
    \o clear_display_raw(position)
    \o (IF ~card.is_face_up THEN draw_card_back_raw(position)
        ELSE draw_card_face_raw(position))

clear_display(position) == clear_display_raw(position)

clear_all_displays ==
    concat([k \in 1..Len(DisplayPosition) |-> clear_display(DisplayPosition[k])])

(***************************************************************************)
(* images/mod.rs and ui/card_ui.rs.  A bitmap of the build is named by the *)
(* (value, suit) it is matched on; assets gives the bytes included for     *)
(* each name.                                                              *)
(***************************************************************************)
HIDDEN_CARD == [value |-> "hidden", suit |-> "hidden"]

\* the names of the bitmaps of a build
Images == {HIDDEN_CARD} \cup [value : ValueSet, suit : SuitSet]

\* a lookup by value and suit alone
get_card_image_by_face(card) ==
    [some |-> TRUE, image |-> [value |-> card.value, suit |-> card.suit]]

get_card_image(card) ==
    IF ~card.is_face_up THEN [some |-> TRUE, image |-> HIDDEN_CARD]
    ELSE [some |-> TRUE, image |-> [value |-> card.value, suit |-> card.suit]]

display_card_with_image(card, position, assets) ==
    LET found == get_card_image(card)
    IN  IF found.some THEN display_pbm_image(assets[found.image], position)
        ELSE display_card(card, position)

\* the four clears, then the cards of the slots below card_count
update_hand(cards, positions, assets) ==
    concat([i \in 1..4 |-> clear_display(positions[i])])
    \o concat([i \in 1..4 |->
                  IF i - 1 < card_count(cards)
                  THEN display_card_with_image(cards[i], positions[i], assets)
                  ELSE <<>>])

update_dealer_hand(cards, assets) ==
    update_hand(cards,
                <<"DealerCard1", "DealerCard2", "DealerCard3", "DealerCard4">>,
                assets)

update_player_hand(cards, assets) ==
    update_hand(cards,
                <<"PlayerCard1", "PlayerCard2", "PlayerCard3", "PlayerCard4">>,
                assets)

(***************************************************************************)
(* The state of the program: the fields of the one BlackJackGame, the      *)
(* method called last and what it returned, and the position of main's     *)
(* game loop.                                                              *)
(***************************************************************************)
VARIABLES deck, player_hand, dealer_hand, state, result,
          dealer_cards_revealed, panicked, last_call, ret, pc

\* The game loop: the screens its last iteration handed to the status
\* display, and how often it has called player_hit and dealer_draw_card in
\* the game in progress.
VARIABLES screens, calls

\* a Hand on its own and the last value() it returned
VARIABLES hand, hand_value

\* The card displays: the operation in progress, the number of bus writes it
\* has issued, the current_channel field of the TCA9548A, the channel and the
\* target of the most recent successful multiplexer write (the target only
\* if that write belongs to the operation in progress or just ended), the
\* last write with its outcome, what the last operation returned, and the
\* operation called last.
VARIABLES hw_op, hw_pc, current_channel, last_selected, selected_for,
          last_write, hw_ret, hw_called

\* The bitmap parser: the data it was last given, what it returned, and what
\* to_display_buffer returned for that image.
VARIABLES pbm_data, pbm_image, pbm_buffer

vars == <<deck, player_hand, dealer_hand, state, result,
          dealer_cards_revealed, panicked, last_call, ret, pc,
          screens, calls,
          hand, hand_value,
          hw_op, hw_pc, current_channel, last_selected, selected_for,
          last_write, hw_ret, hw_called,
          pbm_data, pbm_image, pbm_buffer>>

\* the variables of the bitmap parser
pbm_vars == <<pbm_data, pbm_image, pbm_buffer>>

\* the variables of the card displays
hw_vars == <<hw_op, hw_pc, current_channel, last_selected, selected_for,
             last_write, hw_ret, hw_called>>

\* the variables of the game and of its loop
game_vars == <<deck, player_hand, dealer_hand, state, result,
               dealer_cards_revealed, panicked, last_call, ret, pc,
               screens, calls>>

\* no score on a screen
None == -1

\* show_game_state(message, player_score, dealer_score)
Screen(message, player_score, dealer_score) ==
    [message |-> message, player_score |-> player_score,
     dealer_score |-> dealer_score]

\* no call made yet in this game
NoCalls == [player_hit |-> 0, dealer_draw_card |-> 0]

\* the variables the game and its loop never touch
other_vars == <<hand, hand_value, hw_vars, pbm_vars>>

\* Hand::new(), and value() of it
HandAtRest == hand = Hand_new /\ hand_value = value(Hand_new)

\* to_display_buffer has not been called on the image
NoBuffer == [called |-> FALSE, panicked |-> FALSE, bytes |-> <<>>]

\* PBMImage::new has not been called
PbmAtRest ==
    pbm_data = <<>> /\ pbm_image = PBMError("none") /\ pbm_buffer = NoBuffer

\* no channel: nothing has been written to the multiplexer yet
NoChannel == -1

\* an operation of the card displays with its arguments; n is the channel
\* of a select_channel, hand the cards of a hand refresh and build the
\* bitmaps the program was built with
Op(name, position, card, image_data) ==
    [name |-> name, position |-> position, card |-> card,
     image_data |-> image_data, n |-> NoChannel, hand |-> <<>>,
     build |-> "none"]

NoCard == [suit |-> "none", value |-> "none", is_face_up |-> FALSE]

NoImage == <<>>

\* no operation in progress
Idle == Op("idle", NoPosition, NoCard, NoImage)

NoWrite == [address |-> I2C_MUX_ADDRESS, bytes |-> <<>>, target |-> NoPosition,
            ok |-> FALSE]

\* CardDisplays::new: TCA9548A::new sets current_channel to 0
HwAtRest ==
    /\ hw_op = Idle
    /\ hw_pc = 0
    /\ current_channel = 0
    /\ last_selected = NoChannel
    /\ selected_for = NoPosition
    /\ last_write = NoWrite
    /\ hw_ret = "none"
    /\ hw_called = Idle

\* the fields of the game
fields == <<deck, player_hand, dealer_hand, state, result,
            dealer_cards_revealed, panicked>>

Game ==
    [deck |-> deck, player_hand |-> player_hand, dealer_hand |-> dealer_hand,
     state |-> state, result |-> result,
     dealer_cards_revealed |-> dealer_cards_revealed, panicked |-> panicked]

\* a method is called: the game becomes r.game and the call is recorded
Call(name, r) ==
    /\ ~panicked
    /\ deck' = r.game.deck
    /\ player_hand' = r.game.player_hand
    /\ dealer_hand' = r.game.dealer_hand
    /\ state' = r.game.state
    /\ result' = r.game.result
    /\ dealer_cards_revealed' = r.game.dealer_cards_revealed
    /\ panicked' = r.game.panicked
    /\ last_call' = name
    /\ ret' = r.ret
    /\ UNCHANGED other_vars

\* let mut game = BlackJackGame::new(); the loop is at its match
InitWith(seeds) ==
    \E seed \in seeds :
        /\ deck = BlackJackGame_new(seed).deck
        /\ player_hand = BlackJackGame_new(seed).player_hand
        /\ dealer_hand = BlackJackGame_new(seed).dealer_hand
        /\ state = BlackJackGame_new(seed).state
        /\ result = BlackJackGame_new(seed).result
        /\ dealer_cards_revealed = BlackJackGame_new(seed).dealer_cards_revealed
        /\ panicked = BlackJackGame_new(seed).panicked
        /\ last_call = "new"
        /\ ret = "unit"
        /\ pc = "match"
        /\ screens = <<>>
        /\ calls = NoCalls
        /\ HandAtRest
        /\ HwAtRest
        /\ PbmAtRest

(***************************************************************************)
(* Spec: the game driven by any sequence of calls of its public methods.   *)
(***************************************************************************)
Init == InitWith(Seeds)

Call_start_game ==
    /\ \E seed \in Seeds : Call("start_game", start_game(Game, seed))
    /\ UNCHANGED <<pc, screens, calls>>

Call_deal_initial_cards ==
    /\ Call("deal_initial_cards", deal_initial_cards(Game))
    /\ UNCHANGED <<pc, screens, calls>>

Call_player_hit ==
    /\ Call("player_hit", player_hit(Game))
    /\ UNCHANGED <<pc, screens, calls>>

Call_player_stand ==
    /\ Call("player_stand", player_stand(Game))
    /\ UNCHANGED <<pc, screens, calls>>

Call_player_has_21 ==
    /\ Call("player_has_21", player_has_21(Game))
    /\ UNCHANGED <<pc, screens, calls>>

Call_start_dealer_turn ==
    /\ Call("start_dealer_turn", start_dealer_turn(Game))
    /\ UNCHANGED <<pc, screens, calls>>

Call_reveal_dealer_cards ==
    /\ Call("reveal_dealer_cards", reveal_dealer_cards(Game))
    /\ UNCHANGED <<pc, screens, calls>>

Call_dealer_draw_card ==
    /\ Call("dealer_draw_card", dealer_draw_card(Game))
    /\ UNCHANGED <<pc, screens, calls>>

Next ==
    \/ Call_start_game
    \/ Call_deal_initial_cards
    \/ Call_player_hit
    \/ Call_player_stand
    \/ Call_player_has_21
    \/ Call_start_dealer_turn
    \/ Call_reveal_dealer_cards
    \/ Call_dealer_draw_card

Spec == Init /\ [][Next]_vars

(***************************************************************************)
(* LoopSpec: the game driven by the game loop of main.rs.  Each action is  *)
(* one method call of the loop; pc = "match" at the loop's                  *)
(* match game.state(), pc = "check_21" after a hit that returned true and  *)
(* left the player at 21 with the game not over.                           *)
(***************************************************************************)
LoopInit == InitWith(LoopSeeds)

\* GameState::WaitingForStart: the start button, then game.start_game()
Loop_start ==
    /\ pc = "match" /\ state = "WaitingForStart"
    /\ \E seed \in LoopSeeds : Call("start_game", start_game(Game, seed))
    /\ screens' = <<Screen("Starting game...", None, None)>>
    /\ UNCHANGED <<pc, calls>>

\* GameState::DealerDealing
Loop_deal ==
    /\ pc = "match" /\ state = "DealerDealing"
    /\ \E r \in {deal_initial_cards(Game)} :
           /\ Call("deal_initial_cards", r)
           /\ screens' =
                  <<Screen("Dealer is dealing cards...", None, None),
                    Screen("Cards dealt!", player_value(r.game),
                           dealer_value(r.game))>>
    /\ UNCHANGED <<pc, calls>>

\* the screens after the hit button: "You hit!" if player_hit returned
\* true, then the bust or the 21 screen
hit_screens(r) ==
    IF r.ret # "true" THEN <<>>
    ELSE <<Screen("You hit!", player_value(r.game), dealer_value(r.game))>>
         \o (IF r.game.state = "GameOver"
             THEN <<Screen("Bust! You lose.", player_value(r.game), None)>>
             ELSE IF player_value(r.game) = 21
                  THEN <<Screen("21 points! We move to dealer's turn.",
                                None, None)>>
             ELSE <<>>)

\* GameState::PlayerTurn, the hit button: if game.player_hit() { ... }
Loop_hit ==
    /\ pc = "match" /\ state = "PlayerTurn"
    /\ \E r \in {player_hit(Game)} :
           /\ Call("player_hit", r)
           /\ pc' = IF /\ r.ret = "true"
                       /\ r.game.state # "GameOver"
                       /\ player_value(r.game) = 21
                    THEN "check_21" ELSE "match"
           /\ screens' =
                  <<Screen("HIT/STAND", player_value(Game),
                           dealer_value(Game))>>
                  \o hit_screens(r)
    /\ calls' = [calls EXCEPT !.player_hit = @ + 1]

\* if game.player_value() == 21 { game.player_has_21(); }
Loop_has_21 ==
    /\ pc = "check_21"
    /\ Call("player_has_21", player_has_21(Game))
    /\ pc' = "match"
    /\ UNCHANGED <<screens, calls>>

\* GameState::PlayerTurn, the stand button
Loop_stand ==
    /\ pc = "match" /\ state = "PlayerTurn"
    /\ Call("player_stand", player_stand(Game))
    /\ screens' =
           <<Screen("HIT/STAND", player_value(Game), dealer_value(Game)),
             Screen("You stand!", player_value(Game), None)>>
    /\ UNCHANGED <<pc, calls>>

\* GameState::DealerTurn
Loop_dealer_turn ==
    /\ pc = "match" /\ state = "DealerTurn"
    /\ Call("start_dealer_turn", start_dealer_turn(Game))
    /\ screens' = <<Screen("Dealer's turn...", None, None)>>
    /\ UNCHANGED <<pc, calls>>

\* GameState::DealerRevealing
Loop_reveal ==
    /\ pc = "match" /\ state = "DealerRevealing"
    /\ \E r \in {reveal_dealer_cards(Game)} :
           /\ Call("reveal_dealer_cards", r)
           /\ screens' =
                  <<Screen("Dealer will reveal his cards...", None, None),
                    Screen("Cards revealed", None, dealer_value(r.game))>>
    /\ UNCHANGED <<pc, calls>>

\* GameState::DealerDrawing: if game.dealer_needs_card() { draw } else
\* only a log line, and the loop comes back to the same match
Loop_draw ==
    /\ pc = "match" /\ state = "DealerDrawing"
    /\ IF dealer_needs_card(Game)
       THEN /\ \E r \in {dealer_draw_card(Game)} :
                   /\ Call("dealer_draw_card", r)
                   /\ screens' =
                          <<Screen("Dealer will draw one more card", None,
                                   None)>>
                          \o (IF r.ret = "true"
                              THEN <<Screen("New dealer value!", None,
                                            dealer_value(r.game))>>
                              ELSE <<>>)
            /\ calls' = [calls EXCEPT !.dealer_draw_card = @ + 1]
       ELSE /\ screens' = <<>>
            /\ UNCHANGED <<fields, last_call, ret, other_vars, calls>>
    /\ UNCHANGED pc

\* match game.result(): the message of the final screen
result_message(g, is_player_bust) ==
    CASE g.result = "PlayerWins" -> "You win!"
      [] g.result = "DealerWins" ->
             IF is_player_bust THEN "You busted!" ELSE "Dealer wins!"
      [] g.result = "Push" -> "It's a tie."
      [] g.result = "InProgress" -> "Game in progress..."

\* GameState::GameOver: the final screens, then game = BlackJackGame::new()
Loop_game_over ==
    /\ pc = "match" /\ state = "GameOver"
    /\ \E seed \in LoopSeeds :
          Call("new", [game |-> BlackJackGame_new(seed), ret |-> "unit"])
    /\ screens' =
           LET is_player_bust == player_value(Game) > 21
           IN  IF is_player_bust
               THEN <<Screen("Player busted! Dealer wins!", None, None),
                      Screen(result_message(Game, TRUE), None, None)>>
               ELSE <<Screen("Dealer Finished", None, dealer_value(Game)),
                      Screen(result_message(Game, FALSE), player_value(Game),
                             dealer_value(Game))>>
    /\ calls' = NoCalls
    /\ UNCHANGED pc

LoopNext ==
    \/ Loop_start
    \/ Loop_deal
    \/ Loop_hit
    \/ Loop_has_21
    \/ Loop_stand
    \/ Loop_dealer_turn
    \/ Loop_reveal
    \/ Loop_draw
    \/ Loop_game_over

LoopSpec == LoopInit /\ [][LoopNext]_vars

\* The loop runs on: every branch but the wait for the start button ends
\* after its timers, and in PlayerTurn the player presses hit or stand.
FairLoopSpec ==
    /\ LoopSpec
    /\ WF_vars(Loop_deal)
    /\ WF_vars(Loop_hit \/ Loop_stand)
    /\ WF_vars(Loop_has_21)
    /\ WF_vars(Loop_dealer_turn)
    /\ WF_vars(Loop_reveal)
    /\ WF_vars(Loop_draw)
    /\ WF_vars(Loop_game_over)

(***************************************************************************)
(* ValueSpec: a Hand on its own, built from any cards by add_card, with    *)
(* value() called after every change.                                      *)
(***************************************************************************)
\* a clock reading for the game that stays at rest
RestSeed == <<0, 0, 0, 0>>

\* one card of every rank; Hand::value reads the rank only
HandCards == {Card_new("Spades", v, TRUE) : v \in ValueSet}

ValueInit == InitWith({RestSeed})

\* hand.add_card(card); hand.value()
Hand_add_card ==
    /\ \E card \in HandCards : hand' = add_card(hand, card).cards
    /\ hand_value' = value(hand')
    /\ UNCHANGED <<game_vars, hw_vars, pbm_vars>>

\* Hand::new(); hand.value()
Hand_clear ==
    /\ hand' = Hand_new
    /\ hand_value' = value(hand')
    /\ UNCHANGED <<game_vars, hw_vars, pbm_vars>>

ValueNext ==
    \/ Hand_add_card
    \/ Hand_clear

ValueSpec == ValueInit /\ [][ValueNext]_vars

(***************************************************************************)
(* HwSpec: any sequence of the public operations of CardDisplays, of        *)
(* TCA9548A::select_channel and of CardUI, one bus write per step, every   *)
(* write free to succeed or to fail.  An operation is called once the one  *)
(* before it has returned to its caller.                                   *)
(***************************************************************************)
\* the cards shown: two suits, two ranks, face-up and face-down
HwCards ==
    {Card_new(s, v, f) : s \in {"Hearts", "Spades"}, v \in {"Ace", "King"},
                         f \in BOOLEAN}

\* the channels asked of select_channel: 0..7, and those out of range up to
\* MaxChannel
Channels == 0..MaxChannel

\* mux.select_channel(n)
SelectOp(n) ==
    [Op("select_channel", NoPosition, NoCard, NoImage) EXCEPT !.n = n]

\* the builds: every bitmap parses; the hidden bitmap does not; two faces
\* do not
Assets ==
    [valid |->
         [a \in Images |->
             IF a = HIDDEN_CARD THEN Checkerboard
             ELSE IF a.value = "Ace" /\ a.suit = "Hearts" THEN LeftHalf
             ELSE IF a.value = "Ace" THEN BottomHalf
             ELSE IF a.suit = "Hearts" THEN Stripes
             ELSE OnePixel],
     hidden_unparsable |->
         [a \in Images |->
             IF a = HIDDEN_CARD THEN NoMagic
             ELSE IF a.value = "Ace" THEN BottomHalf
             ELSE Stripes],
     face_unparsable |->
         [a \in Images |->
             IF a = HIDDEN_CARD THEN Checkerboard
             ELSE IF a.value = "Ace" /\ a.suit = "Hearts" THEN TooLarge
             ELSE IF a.value = "Ace" THEN LeftHalf
             ELSE IF a.suit = "Hearts" THEN Stripes
             ELSE Truncated]]

Builds == DOMAIN Assets

\* the hands refreshed: none to four cards, face-up and face-down
UiHands ==
    {<<>>,
     <<Card_new("Hearts", "King", TRUE)>>,
     <<Card_new("Hearts", "Ace", TRUE), Card_new("Spades", "King", FALSE)>>,
     <<Card_new("Spades", "Ace", FALSE), Card_new("Hearts", "King", FALSE)>>,
     <<Card_new("Spades", "King", TRUE), Card_new("Spades", "Ace", TRUE),
       Card_new("Hearts", "King", TRUE)>>,
     <<Card_new("Hearts", "King", TRUE), Card_new("Spades", "Ace", TRUE),
       Card_new("Hearts", "Ace", TRUE), Card_new("Spades", "King", TRUE)>>}

\* card_ui.display_card_with_image(card, position)
ShowOp(card, position, build) ==
    [Op("display_card_with_image", position, card, NoImage)
        EXCEPT !.build = build]

\* card_ui.update_dealer_hand(hand) and update_player_hand(hand)
RefreshOp(name, cards, build) ==
    [Op(name, NoPosition, NoCard, NoImage)
        EXCEPT !.hand = cards, !.build = build]

HwOps ==
    {Op("init_all_displays", NoPosition, NoCard, NoImage),
     Op("clear_all_displays", NoPosition, NoCard, NoImage)}
    \cup {SelectOp(n) : n \in Channels}
    \cup {Op("clear_display", p, NoCard, NoImage) : p \in DisplayPositionSet}
    \cup {Op("display_pbm_image", p, NoCard, i) :
              p \in DisplayPositionSet, i \in ImageData}
    \cup {Op("display_card", p, c, NoImage) :
              p \in DisplayPositionSet, c \in HwCards}
    \cup {ShowOp(c, p, b) :
              c \in HwCards, p \in DisplayPositionSet, b \in Builds}
    \cup {RefreshOp(name, cards, b) :
              name \in {"update_dealer_hand", "update_player_hand"},
              cards \in UiHands, b \in Builds}

\* the writes of an operation
Plan(op) ==
    CASE op.name = "init_all_displays" -> init_all_displays
      [] op.name = "clear_all_displays" -> clear_all_displays
      [] op.name = "clear_display" -> clear_display(op.position)
      [] op.name = "display_pbm_image" ->
             display_pbm_image(op.image_data, op.position)
      [] op.name = "display_card" -> display_card(op.card, op.position)
      [] op.name = "select_channel" -> select_channel(op.n, NoPosition)
      [] op.name = "display_card_with_image" ->
             display_card_with_image(op.card, op.position, Assets[op.build])
      [] op.name = "update_dealer_hand" ->
             update_dealer_hand(op.hand, Assets[op.build])
      [] op.name = "update_player_hand" ->
             update_player_hand(op.hand, Assets[op.build])

PlanOf == [op \in HwOps |-> Plan(op)]

HwInit == InitWith({RestSeed})

\* an operation is called, the last one having returned to its caller: it
\* returns Ok(()) at once if it writes nothing
Begin(op) ==
    /\ hw_op = Idle
    /\ hw_ret = "none"
    /\ hw_called' = op
    /\ hw_pc' = 0
    /\ last_write' = NoWrite
    /\ selected_for' = NoPosition
    /\ IF PlanOf[op] = <<>>
       THEN hw_op' = Idle /\ hw_ret' = "Ok"
       ELSE hw_op' = op /\ hw_ret' = "none"
    /\ UNCHANGED <<current_channel, last_selected>>
    /\ UNCHANGED <<game_vars, hand, hand_value, pbm_vars>>

Hw_select_channel ==
    \E n \in Channels : Begin(SelectOp(n))

Hw_init_all_displays ==
    Begin(Op("init_all_displays", NoPosition, NoCard, NoImage))

Hw_clear_display ==
    \E position \in DisplayPositionSet :
        Begin(Op("clear_display", position, NoCard, NoImage))

Hw_clear_all_displays ==
    Begin(Op("clear_all_displays", NoPosition, NoCard, NoImage))

Hw_display_pbm_image ==
    \E image_data \in ImageData, position \in DisplayPositionSet :
        Begin(Op("display_pbm_image", position, NoCard, image_data))

Hw_display_card ==
    \E card \in HwCards, position \in DisplayPositionSet :
        Begin(Op("display_card", position, card, NoImage))

Ui_display_card_with_image ==
    \E card \in HwCards, position \in DisplayPositionSet, build \in Builds :
        Begin(ShowOp(card, position, build))

Ui_update_dealer_hand ==
    \E cards \in UiHands, build \in Builds :
        Begin(RefreshOp("update_dealer_hand", cards, build))

Ui_update_player_hand ==
    \E cards \in UiHands, build \in Builds :
        Begin(RefreshOp("update_player_hand", cards, build))

\* the caller takes the Result of the operation that has ended
Hw_returned ==
    /\ hw_op = Idle
    /\ hw_ret # "none"
    /\ hw_ret' = "none"
    /\ hw_called' = Idle
    /\ hw_pc' = 0
    /\ last_write' = NoWrite
    /\ selected_for' = NoPosition
    /\ UNCHANGED <<hw_op, current_channel, last_selected>>
    /\ UNCHANGED <<game_vars, hand, hand_value, pbm_vars>>

\* the write the operation in progress issues next
NextWrite == PlanOf[hw_op][hw_pc + 1]

\* the write succeeds; a multiplexer write then records its channel, and the
\* operation returns Ok(()) after its last write
Bus_write_ok ==
    /\ hw_op # Idle
    /\ hw_pc' = hw_pc + 1
    /\ last_write' = [address |-> NextWrite.address, bytes |-> NextWrite.bytes,
                      target |-> NextWrite.target, ok |-> TRUE]
    /\ IF NextWrite.address = I2C_MUX_ADDRESS
       THEN LET n == CHOOSE k \in 0..7 : 2^k = NextWrite.bytes[1]
            IN  /\ current_channel' = n
                /\ last_selected' = n
                /\ selected_for' = NextWrite.target
       ELSE UNCHANGED <<current_channel, last_selected, selected_for>>
    /\ IF hw_pc + 1 = Len(PlanOf[hw_op])
       THEN hw_op' = Idle /\ hw_ret' = "Ok"
       ELSE UNCHANGED <<hw_op, hw_ret>>
    /\ UNCHANGED <<game_vars, hand, hand_value, hw_called, pbm_vars>>

\* a failed write whose error is dropped: the operation goes on
Bus_write_fail_ignored ==
    /\ hw_op # Idle
    /\ hw_pc' = hw_pc + 1
    /\ last_write' = [address |-> NextWrite.address, bytes |-> NextWrite.bytes,
                      target |-> NextWrite.target, ok |-> FALSE]
    /\ IF hw_pc + 1 = Len(PlanOf[hw_op])
       THEN hw_op' = Idle /\ hw_ret' = "Ok"
       ELSE UNCHANGED <<hw_op, hw_ret>>
    /\ UNCHANGED <<current_channel, last_selected, selected_for>>
    /\ UNCHANGED <<game_vars, hand, hand_value, hw_called, pbm_vars>>

\* the write fails: the operation returns the error, nothing else changes
Bus_write_fail ==
    /\ hw_op # Idle
    /\ hw_pc' = hw_pc + 1
    /\ last_write' = [address |-> NextWrite.address, bytes |-> NextWrite.bytes,
                      target |-> NextWrite.target, ok |-> FALSE]
    /\ hw_op' = Idle
    /\ hw_ret' = "Err"
    /\ UNCHANGED <<current_channel, last_selected, selected_for>>
    /\ UNCHANGED <<game_vars, hand, hand_value, hw_called, pbm_vars>>

HwNext ==
    \/ Hw_select_channel
    \/ Hw_init_all_displays
    \/ Hw_clear_display
    \/ Hw_clear_all_displays
    \/ Hw_display_pbm_image
    \/ Hw_display_card
    \/ Ui_display_card_with_image
    \/ Ui_update_dealer_hand
    \/ Ui_update_player_hand
    \/ Hw_returned
    \/ Bus_write_ok
    \/ Bus_write_fail

HwSpec == HwInit /\ [][HwNext]_vars

(***************************************************************************)
(* PbmSpec: PBMImage::new called on bitmaps: those shown on the panels and *)
(* the P4 and P1 encodings of every pixel grid of up to MaxBitmapWidth by  *)
(* MaxBitmapHeight pixels.                                                 *)
(***************************************************************************)
\* a pixel grid: its pixels row after row
Grids ==
    UNION {[width : {w}, height : {h}, pixels : [1..(w * h) -> BOOLEAN]] :
               w \in 1..MaxBitmapWidth, h \in 1..MaxBitmapHeight}

\* the decimal digits of n
RECURSIVE Digits(_)
Digits(n) ==
    IF n < 10 THEN <<48 + n>> ELSE Digits(n \div 10) \o <<48 + (n % 10)>>

\* byte b of row y of the P4 encoding from bit k on, the most significant bit
\* first, the bits beyond the width zero
RECURSIVE PackedBits(_, _, _, _)
PackedBits(grid, y, b, k) ==
    IF k = 8 THEN 0
    ELSE LET x == 8 * b + k
         IN  (IF x < grid.width /\ grid.pixels[y * grid.width + x + 1]
              THEN 2^(7 - k) ELSE 0)
             + PackedBits(grid, y, b, k + 1)

\* "P4\n<width> <height>\n", then height rows of ceil(width / 8) bytes
P4Encoding(grid) ==
    <<80, 52, 10>> \o Digits(grid.width) \o <<32>> \o Digits(grid.height)
    \o <<10>>
    \o concat([r \in 1..grid.height |->
                  [c \in 1..((grid.width + 7) \div 8) |->
                      PackedBits(grid, r - 1, c - 1, 0)]])

\* "P1\n<width> <height>\n", then one digit per pixel, a row per line
P1Encoding(grid) ==
    <<80, 49, 10>> \o Digits(grid.width) \o <<32>> \o Digits(grid.height)
    \o <<10>>
    \o concat([n \in 1..(grid.width * grid.height) |->
                  <<IF grid.pixels[n] THEN 49 ELSE 48,
                    IF n % grid.width = 0 THEN 10 ELSE 32>>])

\* "P4\n520 1\n" 0x00 0xFF ... 0xFF: one row of 520 pixels, the first eight
\* off and the others on
Wide ==
    <<80, 52, 10, 53, 50, 48, 32, 49, 10, 0>> \o [i \in 1..64 |-> \hFF]

\* "P<format>\n<width> <height>\n"
Header(format, width, height) ==
    <<80, format, 10>> \o Digits(width) \o <<32>> \o Digits(height) \o <<10>>

\* widths and heights of more than 8192 pixels in all
OversizedDims ==
    {<<8193, 1>>, <<1, 8193>>, <<128, 65>>, <<8192, 2>>, <<65535, 1>>,
     <<70000, 1>>, <<1, 65536>>}

\* what follows the header of an oversized bitmap: nothing, the digits of a
\* P1 payload, bytes of a P4 payload, a letter
OversizedPayloads == {<<>>, <<49, 32, 48>>, <<\hFF, \h00>>, <<120>>}

Oversized ==
    {Header(format, dims[1], dims[2]) \o payload :
         format \in {49, 52}, dims \in OversizedDims,
         payload \in OversizedPayloads}

\* the characters of a P1 payload: '0' '1' '2' '3' and the space
P1Alphabet == {48, 49, 50, 51, 32}

\* "1#3\n0": a P1 payload with a comment between its two pixels
Commented == <<49, 35, 51, 10, 48>>

\* the P1 payloads of up to MaxPayloadLen characters, and the one with the
\* comment
P1Payloads ==
    UNION {[1..n -> P1Alphabet] : n \in 0..MaxPayloadLen} \cup {Commented}

\* the widths and heights of the P1 bitmaps with those payloads
P1Dims == {<<2, 1>>, <<1, 2>>}

P1Bitmaps ==
    {Header(49, dims[1], dims[2]) \o payload :
         dims \in P1Dims, payload \in P1Payloads}

\* the P4 encodings of the grids with 1 to all of their payload bytes cut
P4Truncated ==
    UNION {{SubSeq(P4Encoding(grid), 1, Len(P4Encoding(grid)) - cut) :
                cut \in 1..(grid.height * ((grid.width + 7) \div 8))} :
               grid \in Grids}

PbmInputs ==
    ImageData \cup {P4Encoding(grid) : grid \in Grids}
              \cup {P1Encoding(grid) : grid \in Grids}
              \cup {Wide}
              \cup Oversized
              \cup P1Bitmaps
              \cup P4Truncated

\* PBMImage::new of every input, computed once
ParsedInput == [data \in PbmInputs |-> PBMImage_new(data)]

PbmInit == InitWith({RestSeed})

\* PBMImage::new(data)
Pbm_new ==
    /\ PbmAtRest
    /\ \E data \in PbmInputs :
           /\ pbm_data' = data
           /\ pbm_image' = ParsedInput[data]
    /\ pbm_buffer' = NoBuffer
    /\ UNCHANGED <<game_vars, hand, hand_value, hw_vars>>

\* image.to_display_buffer(128, 64) on the image PBMImage::new returned: the
\* buffer, the products wrapping around, or, where a product overflows, the
\* panic of a build with overflow checks
Pbm_to_display_buffer ==
    /\ pbm_image.ok
    /\ ~pbm_buffer.called
    /\ pbm_buffer' \in
           {[called |-> TRUE, panicked |-> FALSE,
             bytes |-> to_display_buffer(pbm_image, 128, 64)]}
           \cup (IF to_display_buffer_overflows(pbm_image, 128, 64)
                 THEN {[called |-> TRUE, panicked |-> TRUE, bytes |-> <<>>]}
                 ELSE {})
    /\ UNCHANGED <<game_vars, hand, hand_value, hw_vars, pbm_data, pbm_image>>

PbmNext == Pbm_new \/ Pbm_to_display_buffer

PbmSpec == PbmInit /\ [][PbmNext]_vars

TypeOK ==
    /\ state \in GameState
    /\ result \in GameResult
    /\ dealer_cards_revealed \in BOOLEAN
    /\ panicked \in BOOLEAN
    /\ ret \in {"unit", "true", "false", "panic"}
    /\ pc \in {"match", "check_21"}
    /\ \A k \in 1..Len(screens) :
           /\ screens[k].player_score \in {None} \cup 0..255
           /\ screens[k].dealer_score \in {None} \cup 0..255
    /\ calls.player_hit \in Nat /\ calls.dealer_draw_card \in Nat
    /\ \A k \in 1..Len(deck) : deck[k] \in Card
    /\ \A k \in 1..Len(player_hand) : player_hand[k] \in Card
    /\ \A k \in 1..Len(dealer_hand) : dealer_hand[k] \in Card

(***************************************************************************)
(* Claims about the game state machine.                                    *)
(***************************************************************************)

\* C1: under any sequence of calls of the public methods the state changes
\* only along the edges: any state -> DealerDealing by start_game;
\* DealerDealing -> PlayerTurn or GameOver; PlayerTurn -> DealerTurn or
\* GameOver; DealerTurn -> DealerRevealing; DealerRevealing -> DealerDrawing
\* or GameOver; DealerDrawing -> DealerDrawing or GameOver.
C1_OnlyLegalEdges ==
    [][state' # state =>
          \/ last_call' = "start_game" /\ state' = "DealerDealing"
          \/ state = "DealerDealing" /\ state' \in {"PlayerTurn", "GameOver"}
          \/ state = "PlayerTurn" /\ state' \in {"DealerTurn", "GameOver"}
          \/ state = "DealerTurn" /\ state' = "DealerRevealing"
          \/ state = "DealerRevealing" /\ state' \in {"DealerDrawing", "GameOver"}
          \/ state = "DealerDrawing" /\ state' = "GameOver"]_vars

\* the blackjack values of the face-up cards of a hand, added up
FaceUpTotal(cards) ==
    LET up == SelectSeq(cards, LAMBDA c : c.is_face_up)
        total[k \in 0..Len(up)] ==
            IF k = 0 THEN 0 ELSE total[k - 1] + blackjack_value(up[k])
    IN  total[Len(up)]

\* C2: in every reachable state where the dealer's cards have not been
\* revealed, dealer_value() is the sum of the blackjack values of the
\* face-up dealer cards only; where they have been revealed it is the
\* ace-adjusted total of the whole dealer hand.
C2_DealerValueHidesFaceDown ==
    /\ ~dealer_cards_revealed => dealer_value(Game) = FaceUpTotal(dealer_hand)
    /\ dealer_cards_revealed => dealer_value(Game) = value(dealer_hand)

\* the state each guarded method is valid in
ValidState ==
    [player_hit |-> "PlayerTurn", player_stand |-> "PlayerTurn",
     start_dealer_turn |-> "DealerTurn",
     reveal_dealer_cards |-> "DealerRevealing",
     dealer_draw_card |-> "DealerDrawing"]

\* C3: player_hit, player_stand, start_dealer_turn, reveal_dealer_cards and
\* dealer_draw_card called in a state other than the one they are valid in
\* never panic and leave the whole game unchanged; player_hit, player_stand
\* and dealer_draw_card then return false.
C3_MisuseIsIgnored ==
    [][\A m \in DOMAIN ValidState :
          (last_call' = m /\ state # ValidState[m]) =>
              /\ UNCHANGED fields
              /\ ~panicked'
              /\ m \in {"player_hit", "player_stand", "dealer_draw_card"}
                    => ret' = "false"]_vars

\* C3 witness: dealer_draw_card has just been refused during the player's
\* turn, with both hands dealt.
C3_Witness ==
    /\ last_call = "dealer_draw_card" /\ ret = "false"
    /\ state = "PlayerTurn"
    /\ Len(player_hand) = 2 /\ Len(dealer_hand) = 2

\* C4: deal_initial_cards called in a state other than DealerDealing draws
\* no card, adds no card to either hand and leaves state and result
\* unchanged.
C4_DealOutsideDealingIgnored ==
    [][(last_call' = "deal_initial_cards" /\ state # "DealerDealing") =>
          UNCHANGED <<deck, player_hand, dealer_hand, state, result>>]_vars

\* C5: under any sequence of calls the result differs from InProgress only
\* while state = GameOver, and the result is given a winner or push value
\* only by a step that enters GameOver.
C5_ResultOnlyInGameOver ==
    /\ [](state # "GameOver" => result = "InProgress")
    /\ [][(result' # result /\ result' # "InProgress") =>
             (state # "GameOver" /\ state' = "GameOver")]_vars

\* the first Len(a) cards of b are the cards of a
IsPrefix(a, b) == Len(a) <= Len(b) /\ SubSeq(b, 1, Len(a)) = a

\* b is a with exactly one card appended at its end
IsAppendOne(a, b) == Len(b) = Len(a) + 1 /\ IsPrefix(a, b)

\* C6 as the claim states it: each hand holds at most 4 cards in every
\* reachable state, and a hand changes only by appending one card at its
\* end.
C6_OnlyAppendOne ==
    /\ [](Len(player_hand) <= 4 /\ Len(dealer_hand) <= 4)
    /\ [][/\ player_hand' # player_hand => IsAppendOne(player_hand, player_hand')
          /\ dealer_hand' # dealer_hand => IsAppendOne(dealer_hand, dealer_hand')]_vars

\* the cards of a hand with their faces ignored
Faces(cards) == [k \in 1..Len(cards) |-> <<cards[k].suit, cards[k].value>>]

\* C6 amended: each hand holds at most 4 cards in every reachable state, and
\* a hand changes only (a) by cards appended at its end, one per call and up
\* to two per deal_initial_cards call, (b) by start_game replacing it with an
\* empty hand, or (c) for the dealer hand, by a reveal (reveal_dealer_cards,
\* or deal_initial_cards on a player blackjack) turning its cards face-up in
\* place, suits, ranks and order kept.
C6_HandsGrowAtTheEnd ==
    /\ [](Len(player_hand) <= 4 /\ Len(dealer_hand) <= 4)
    /\ [][/\ player_hand' # player_hand =>
                \/ last_call' = "start_game" /\ player_hand' = <<>>
                \/ IsAppendOne(player_hand, player_hand')
                \/ /\ last_call' = "deal_initial_cards"
                   /\ IsPrefix(player_hand, player_hand')
                   /\ Len(player_hand') = Len(player_hand) + 2
          /\ dealer_hand' # dealer_hand =>
                \/ last_call' = "start_game" /\ dealer_hand' = <<>>
                \/ IsAppendOne(dealer_hand, dealer_hand')
                \/ /\ last_call' = "deal_initial_cards"
                   /\ IsPrefix(dealer_hand, dealer_hand')
                   /\ Len(dealer_hand') = Len(dealer_hand) + 2
                \/ /\ last_call' = "reveal_dealer_cards"
                   /\ Faces(dealer_hand') = Faces(dealer_hand)
                   /\ \A k \in 1..Len(dealer_hand') : dealer_hand'[k].is_face_up
                \/ /\ last_call' = "deal_initial_cards"
                   /\ is_blackjack(player_hand')
                   /\ IsPrefix(Faces(dealer_hand), Faces(dealer_hand'))
                   /\ Len(dealer_hand') <= Len(dealer_hand) + 2
                   /\ \A k \in 1..Len(dealer_hand') : dealer_hand'[k].is_face_up]_vars

\* C6 witness: a hit has just appended the player's fourth card while the
\* dealer holds four cards too.
C6_Witness ==
    /\ last_call = "player_hit" /\ ret = "true" /\ state = "PlayerTurn"
    /\ Len(player_hand) = 4 /\ Len(dealer_hand) = 4

\* the (suit, rank) pairs of a sequence of cards
FaceSet(cards) == {<<cards[k].suit, cards[k].value>> : k \in 1..Len(cards)}

\* no (suit, rank) occurs at two places of the sequence
NoRepeat(cards) == Cardinality(FaceSet(cards)) = Len(cards)

\* C7: for every seed a new deck holds each of the 52 (suit, rank)
\* combinations exactly once, every swap index of the shuffle lying inside
\* the deck; a card popped is never put back within a game; so no
\* (suit, rank) occurs twice across the deck and the two hands.
C7_DeckIsAPermutation ==
    /\ [](/\ last_call \in {"new", "start_game"} =>
                /\ \E seed \in Seeds :
                      /\ deck = Deck_new(seed)
                      /\ \A i \in 1..51 : shuffle_index(seed, i) \in 0..i
                /\ Len(deck) = 52
                /\ FaceSet(deck) = SuitSet \X ValueSet
          /\ NoRepeat(deck \o player_hand \o dealer_hand))
    /\ [][last_call' # "start_game" => IsPrefix(deck', deck)]_vars

\* C7 witness: cards of the shuffled deck of a started game are spread over
\* the deck and both hands.
C7_Witness ==
    /\ state = "DealerDrawing" /\ last_call = "dealer_draw_card"
    /\ Len(player_hand) = 3 /\ Len(dealer_hand) = 3 /\ Len(deck) = 46

\* C8: in every reachable state where the dealer holds at least 2 cards
\* that have not been revealed, the dealer's second card is face-down; every
\* player card and every dealer card other than the second is face-up; in
\* particular in GameOver after a player bust.
C8_OnlyTheHoleCardIsDown ==
    /\ (Len(dealer_hand) >= 2 /\ ~dealer_cards_revealed)
          => ~dealer_hand[2].is_face_up
    /\ \A k \in 1..Len(player_hand) : player_hand[k].is_face_up
    /\ \A k \in 1..Len(dealer_hand) : k # 2 => dealer_hand[k].is_face_up

\* C9: within one game dealer_cards_revealed is false from start_game until
\* a reveal step (reveal_dealer_cards, or deal_initial_cards dealing the
\* player a blackjack) sets it; once true it stays true until the next
\* start_game; no other call changes it.
C9_RevealedIsMonotonic ==
    [][/\ last_call' = "start_game" => ~dealer_cards_revealed'
       /\ (last_call' # "start_game" /\ dealer_cards_revealed)
             => dealer_cards_revealed'
       /\ (last_call' # "start_game" /\ ~dealer_cards_revealed
             /\ dealer_cards_revealed')
             => \/ last_call' = "reveal_dealer_cards" /\ state = "DealerRevealing"
                \/ last_call' = "deal_initial_cards" /\ is_blackjack(player_hand')]_vars

\* C9 witness: the flag set by an earlier reveal is still set after a later
\* call of another method in the same game.
C9_Witness ==
    /\ dealer_cards_revealed
    /\ last_call = "dealer_draw_card" /\ ret = "true"
    /\ Len(dealer_hand) = 3

\* the n-th card that draw pops from the deck as it is now
Popped(n) == deck[Len(deck) + 1 - n]

\* C10 as the claim states it: start_game followed by deal_initial_cards
\* always leaves the player with the 1st and 3rd cards popped, both face-up,
\* the dealer with the 2nd popped face-up and the 4th popped face-down, and
\* 48 cards in the deck.
C10_DealLeavesHoleCardDown ==
    [][(last_call = "start_game" /\ last_call' = "deal_initial_cards") =>
          /\ player_hand' = <<set_face_up(Popped(1), TRUE),
                              set_face_up(Popped(3), TRUE)>>
          /\ dealer_hand' = <<set_face_up(Popped(2), TRUE),
                              set_face_up(Popped(4), FALSE)>>
          /\ Len(deck') = 48]_vars

\* C10 amended: start_game followed by deal_initial_cards always leaves the
\* player with the 1st and 3rd cards popped, both face-up, the dealer with
\* the 2nd popped face-up and then the 4th popped, which is face-down unless
\* the player's two cards are a blackjack (then the dealer hand has been
\* revealed and it is face-up), and 48 cards in the deck.
C10_DealOrder ==
    [][(last_call = "start_game" /\ last_call' = "deal_initial_cards") =>
          /\ player_hand' = <<set_face_up(Popped(1), TRUE),
                              set_face_up(Popped(3), TRUE)>>
          /\ dealer_hand' = <<set_face_up(Popped(2), TRUE),
                              set_face_up(Popped(4),
                                          value(player_hand') = 21)>>
          /\ Len(deck') = 48]_vars

\* C10 witness: the deal of a fresh game gave the player a blackjack, and
\* the dealer's two cards lie face-up.
C10_Witness ==
    /\ last_call = "deal_initial_cards" /\ state = "GameOver"
    /\ Len(deck) = 48 /\ Len(player_hand) = 2 /\ value(player_hand) = 21
    /\ Len(dealer_hand) = 2 /\ dealer_hand[2].is_face_up

(***************************************************************************)
(* C11: the blackjack check of the deal                                    *)
(***************************************************************************)
\* the sum of the first two cards with an ace as 11, two aces as 12
TwoCardTotal(cards) ==
    LET a == blackjack_value(cards[1])
        b == blackjack_value(cards[2])
    IN  IF a + b > 21 THEN a + b - 10 ELSE a + b

\* C11: after deal_initial_cards called in DealerDealing, a player whose two
\* cards total 21 ends the game at once with both dealer cards face-up, the
\* dealer holding exactly two cards, and result Push when the dealer's two
\* cards total 21 too and PlayerWins otherwise; any other player total gives
\* PlayerTurn with result InProgress.
C11_DealChecksBlackjack ==
    [][(last_call' = "deal_initial_cards" /\ state = "DealerDealing") =>
          /\ Len(player_hand') = 2
          /\ IF TwoCardTotal(player_hand') = 21
             THEN /\ state' = "GameOver"
                  /\ Len(dealer_hand') = 2
                  /\ \A i \in 1..Len(dealer_hand') : dealer_hand'[i].is_face_up
                  /\ result' = IF TwoCardTotal(dealer_hand') = 21
                               THEN "Push" ELSE "PlayerWins"
             ELSE /\ state' = "PlayerTurn"
                  /\ result' = "InProgress"]_vars

\* a deal has just ended in a push of two blackjacks
C11_Witness ==
    /\ last_call = "deal_initial_cards"
    /\ state = "GameOver"
    /\ result = "Push"
    /\ Len(player_hand) = 2 /\ TwoCardTotal(player_hand) = 21
    /\ Len(dealer_hand) = 2 /\ TwoCardTotal(dealer_hand) = 21

(***************************************************************************)
(* C12: the player busts                                                   *)
(***************************************************************************)
\* C12: a player_hit called in PlayerTurn whose card takes the player total
\* above 21 sets result DealerWins and state GameOver in that call and
\* returns true; it leaves the dealer hand as it was, the face-down card
\* still face-down, and leaves dealer_cards_revealed as it was.
C12_BustEndsTheGameUnrevealed ==
    [][(/\ last_call' = "player_hit"
        /\ state = "PlayerTurn"
        /\ player_hand' # player_hand
        /\ raw_sum(player_hand') - 10 * count_aces(player_hand') > 21) =>
          /\ result' = "DealerWins"
          /\ state' = "GameOver"
          /\ ret' = "true"
          /\ dealer_hand' = dealer_hand
          /\ dealer_cards_revealed' = dealer_cards_revealed]_vars

\* the player has just bust and the dealer's second card is still face-down
C12_Witness ==
    /\ last_call = "player_hit"
    /\ state = "GameOver"
    /\ result = "DealerWins"
    /\ raw_sum(player_hand) - 10 * count_aces(player_hand) > 21
    /\ Len(dealer_hand) = 2
    /\ dealer_hand[1].is_face_up
    /\ ~dealer_hand[2].is_face_up
    /\ ~dealer_cards_revealed

(***************************************************************************)
(* C13: a hit with the player hand full                                    *)
(***************************************************************************)
\* C13: a player_hit called in PlayerTurn with 4 cards in the player hand
\* leaves the player hand unchanged, moves to DealerTurn, keeps result
\* InProgress and returns true.
C13_HitAtTheCapStands ==
    [][(/\ last_call' = "player_hit"
        /\ state = "PlayerTurn"
        /\ Len(player_hand) = MaxHandCards) =>
          /\ player_hand' = player_hand
          /\ state' = "DealerTurn"
          /\ result = "InProgress" /\ result' = "InProgress"
          /\ ret' = "true"
          /\ ~panicked']_vars

\* a hit has just been rejected on a full player hand
C13_Witness ==
    /\ last_call = "player_hit"
    /\ ret = "true"
    /\ state = "DealerTurn"
    /\ result = "InProgress"
    /\ Len(player_hand) = MaxHandCards

(***************************************************************************)
(* C14: the player reaches 21 with more than two cards                     *)
(***************************************************************************)
\* C14: in the game loop, a player_hit that adds a third or fourth card and
\* brings the total to exactly 21 is no blackjack and no bust: result stays
\* InProgress and the game is not over; the very next call of the loop is
\* player_has_21, which moves the game to DealerTurn, so that no hit or
\* stand comes in between.
C14_TwentyOneGoesToTheDealer ==
    /\ [][(/\ last_call' = "player_hit"
           /\ player_hand' # player_hand
           /\ Len(player_hand') \in {3, 4}
           /\ value(player_hand') = 21) =>
             /\ ~is_blackjack(player_hand')
             /\ ~is_bust(player_hand')
             /\ result' = "InProgress"
             /\ state' = "PlayerTurn"
             /\ pc' = "check_21"]_vars
    /\ [][pc = "check_21" =>
             /\ last_call' = "player_has_21"
             /\ state' = "DealerTurn"
             /\ result' = "InProgress"
             /\ player_hand' = player_hand
             /\ pc' = "match"]_vars
    /\ [](is_blackjack(player_hand) <=>
             (card_count(player_hand) = 2 /\ value(player_hand) = 21))

\* player_has_21 has just sent a 21 of three or four cards to the dealer
C14_Witness ==
    /\ last_call = "player_has_21"
    /\ state = "DealerTurn"
    /\ Len(player_hand) \in {3, 4}
    /\ value(player_hand) = 21
    /\ result = "InProgress"

(***************************************************************************)
(* Reference totals, computed without Hand::value                          *)
(***************************************************************************)
\* the total with every ace counted 1
RECURSIVE AcesLow(_)
AcesLow(cards) ==
    IF cards = <<>> THEN 0
    ELSE (IF Head(cards).value = "Ace" THEN 1 ELSE blackjack_value(Head(cards)))
         + AcesLow(Tail(cards))

AceCount(cards) == Cardinality({i \in DOMAIN cards : cards[i].value = "Ace"})

\* the totals obtained by counting each ace 1 or 11
Totals(cards) == {AcesLow(cards) + 10 * k : k \in 0..AceCount(cards)}

\* the largest total not above 21 when there is one, else every ace as 1
BestTotal(cards) ==
    LET fits == {t \in Totals(cards) : t <= 21}
    IN  IF fits = {} THEN AcesLow(cards)
        ELSE CHOOSE t \in fits : \A u \in fits : u <= t

\* the outcome of comparing two totals
Compare(player_total, dealer_total) ==
    IF player_total > dealer_total THEN "PlayerWins"
    ELSE IF dealer_total > player_total THEN "DealerWins"
    ELSE "Push"

(***************************************************************************)
(* C15: the dealer's cards are revealed                                    *)
(***************************************************************************)
\* C15: reveal_dealer_cards called in DealerRevealing turns every dealer card
\* face-up, keeping the cards; then a dealer total below 17 gives state
\* DealerDrawing with result InProgress, and a total of 17 or more gives
\* state GameOver with the result of comparing the two totals.
C15_RevealThenDrawOrSettle ==
    [][(last_call' = "reveal_dealer_cards" /\ state = "DealerRevealing") =>
          /\ Faces(dealer_hand') = Faces(dealer_hand)
          /\ \A i \in 1..Len(dealer_hand') : dealer_hand'[i].is_face_up
          /\ player_hand' = player_hand
          /\ IF BestTotal(dealer_hand') < 17
             THEN /\ state' = "DealerDrawing"
                  /\ result' = "InProgress"
             ELSE /\ state' = "GameOver"
                  /\ result' = Compare(BestTotal(player_hand'),
                                       BestTotal(dealer_hand'))]_vars

\* a reveal has just settled the game on a dealer total of exactly 17
C15_Witness ==
    /\ last_call = "reveal_dealer_cards"
    /\ state = "GameOver"
    /\ BestTotal(dealer_hand) = 17
    /\ result = Compare(BestTotal(player_hand), 17)
    /\ \A i \in 1..Len(dealer_hand) : dealer_hand[i].is_face_up

(***************************************************************************)
(* C16: the dealer draws to 17                                             *)
(***************************************************************************)
\* C16: dealer_draw_card takes a card from the deck only when called in
\* DealerDrawing with a dealer total below 17, and then takes exactly one;
\* and the game leaves DealerDrawing only with a dealer total of 17 or more
\* (a bust included) or with 4 cards in the dealer hand.
C16_DealerDrawsBelow17Only ==
    /\ [][(last_call' = "dealer_draw_card" /\ deck' # deck) =>
             /\ state = "DealerDrawing"
             /\ BestTotal(dealer_hand) < 17
             /\ Len(deck') = Len(deck) - 1]_vars
    /\ [][(state = "DealerDrawing" /\ state' # "DealerDrawing") =>
             \/ BestTotal(dealer_hand') >= 17
             \/ Len(dealer_hand') = MaxHandCards]_vars

\* the dealer has just drawn a third card below 17 and goes on drawing
C16_Witness ==
    /\ last_call = "dealer_draw_card"
    /\ ret = "true"
    /\ state = "DealerDrawing"
    /\ Len(dealer_hand) = 3
    /\ BestTotal(dealer_hand) < 17

(***************************************************************************)
(* C17: the dealer hand fills up                                           *)
(***************************************************************************)
\* C17: a dealer_draw_card call that brings the dealer hand to 4 cards
\* without busting ends the game in that same call, with the result of
\* comparing the totals, even when the dealer total is still below 17; and no
\* card is taken from the deck for a dealer that holds 4 cards.
C17_FourthCardStandsAtOnce ==
    /\ [][(/\ last_call' = "dealer_draw_card"
           /\ Len(dealer_hand) = MaxHandCards - 1
           /\ Len(dealer_hand') = MaxHandCards
           /\ BestTotal(dealer_hand') <= 21) =>
             /\ state' = "GameOver"
             /\ result' = Compare(BestTotal(player_hand'),
                                  BestTotal(dealer_hand'))]_vars
    /\ [][(/\ last_call' = "dealer_draw_card"
           /\ Len(dealer_hand) = MaxHandCards) =>
             deck' = deck]_vars

(***************************************************************************)
(* C18: the result agrees with the totals                                  *)
(***************************************************************************)
\* the winner by the rules, from the two totals
ResultAgrees(res, p, d) ==
    /\ res = "DealerWins" <=> (p > 21 \/ (d <= 21 /\ d > p))
    /\ res = "PlayerWins" <=> (p <= 21 /\ (d > 21 \/ p > d))
    /\ res = "Push" <=> p = d

\* C18: in every GameOver state of the game loop, result is DealerWins iff
\* the player is above 21 or the dealer, not above 21, has more than the
\* player; PlayerWins iff the player is not above 21 and the dealer is above
\* 21 or has less; Push iff the totals are equal.  A dealer bust gives
\* PlayerWins and GameOver in the call that drew the card, and the calls
\* that settle by comparing values do so with no hand above 21.
C18_ResultAgreesWithTotals ==
    /\ [](state = "GameOver" =>
             ResultAgrees(result, BestTotal(player_hand),
                          BestTotal(dealer_hand)))
    /\ [][(/\ last_call' = "dealer_draw_card"
           /\ dealer_hand' # dealer_hand
           /\ BestTotal(dealer_hand') > 21) =>
             (state' = "GameOver" /\ result' = "PlayerWins")]_vars
    /\ [][(/\ state # "GameOver" /\ state' = "GameOver"
           /\ \/ last_call' = "reveal_dealer_cards"
              \/ last_call' = "dealer_draw_card"
                   /\ BestTotal(dealer_hand') <= 21) =>
             /\ BestTotal(player_hand') <= 21
             /\ BestTotal(dealer_hand') <= 21
             /\ result' = Compare(BestTotal(player_hand'),
                                  BestTotal(dealer_hand'))]_vars

\* the dealer has just bust and the player wins
C18_Witness ==
    /\ last_call = "dealer_draw_card"
    /\ state = "GameOver"
    /\ BestTotal(dealer_hand) > 21
    /\ BestTotal(player_hand) <= 21
    /\ result = "PlayerWins"

(***************************************************************************)
(* C19: the value of a hand                                                *)
(***************************************************************************)
\* the largest value of a u8
MaxU8 == 255

\* C19: for every hand of 0 to 4 cards, value() is the reference total: face
\* cards 10, numeric cards their number, and the largest total not above 21
\* that counting each ace 1 or 11 can give when there is one, else the total
\* with every ace counted 1; no sum formed on the way exceeds 8 bits.
C19_ValueIsTheBestTotal ==
    /\ Len(hand) <= MaxHandCards
    /\ hand_value = BestTotal(hand)
    /\ raw_sum(hand) <= MaxU8
    /\ AcesLow(hand) <= hand_value /\ hand_value <= raw_sum(hand)

\* a hand of four cards with two aces, one of them counted 11
C19_Witness ==
    /\ Len(hand) = MaxHandCards
    /\ AceCount(hand) = 2
    /\ hand_value = AcesLow(hand) + 10
    /\ hand_value <= 21

(***************************************************************************)
(* C20: every panel write goes to the panel selected for it                *)
(***************************************************************************)
\* C20: in any sequence of CardDisplays operations, with writes failing
\* anywhere, every write to the panel address is issued while the most
\* recent successful multiplexer write selected the channel of the position
\* the write is for, and that multiplexer write was made inside the same
\* operation, for that same position.
C20_PanelWritesAreSelected ==
    [][(hw_pc' = hw_pc + 1 /\ last_write'.address = OLED_ADDRESS) =>
          /\ last_write'.target \in DisplayPositionSet
          /\ last_selected = channel(last_write'.target)
          /\ selected_for = last_write'.target
          /\ current_channel = last_selected]_vars

\* an operation on the last panel has issued more than 100 writes, all
\* successful, under channel 7
C20_Witness ==
    /\ hw_op = Idle
    /\ hw_ret = "Ok"
    /\ last_write.address = OLED_ADDRESS
    /\ last_write.ok
    /\ last_write.target = "PlayerCard4"
    /\ last_selected = 7
    /\ hw_pc > 100

(***************************************************************************)
(* C21, C22: select_channel                                                *)
(***************************************************************************)
\* bit k of the byte b
Bit(b, k) == (b \div 2^k) % 2

\* C21: select_channel(n) with n in 0..7 issues exactly one bus write, to
\* the multiplexer address, of one byte with bit n set and no other; the
\* current channel recorded becomes n when the write succeeds and keeps its
\* value when it fails, and the call returns the outcome of the write.
C21_SelectWritesOneBit ==
    /\ [][(hw_pc' = hw_pc + 1 /\ hw_called.name = "select_channel") =>
             /\ hw_called.n \in 0..7
             /\ hw_pc = 0
             /\ last_write'.address = I2C_MUX_ADDRESS
             /\ Len(last_write'.bytes) = 1
             /\ \A k \in 0..7 :
                   Bit(last_write'.bytes[1], k)
                       = (IF k = hw_called.n THEN 1 ELSE 0)
             /\ last_write'.bytes[1] < 2^8
             /\ hw_op' = Idle
             /\ IF last_write'.ok
                THEN current_channel' = hw_called.n /\ hw_ret' = "Ok"
                ELSE current_channel' = current_channel /\ hw_ret' = "Err"]_vars
    /\ []((hw_called.name = "select_channel" /\ hw_called.n <= 7
             /\ hw_op = Idle) => hw_pc = 1)

\* select_channel(5) has succeeded from another channel
C21_Witness ==
    /\ hw_called = SelectOp(5)
    /\ hw_op = Idle
    /\ hw_ret = "Ok"
    /\ hw_pc = 1
    /\ last_write.bytes = <<32>>
    /\ current_channel = 5

\* C22: select_channel(n) with n above 7 returns success, issues no bus
\* write and leaves the current channel recorded as it was.
C22_OutOfRangeIsANoOp ==
    [][(hw_op = Idle /\ hw_called'.name = "select_channel"
          /\ hw_called'.n > 7) =>
          /\ hw_op' = Idle
          /\ hw_ret' = "Ok"
          /\ hw_pc' = 0
          /\ last_write' = NoWrite
          /\ current_channel' = current_channel
          /\ last_selected' = last_selected]_vars

\* select_channel(9) has returned Ok with channel 3 still recorded
C22_Witness ==
    /\ hw_called = SelectOp(9)
    /\ hw_op = Idle
    /\ hw_ret = "Ok"
    /\ hw_pc = 0
    /\ current_channel = 3
    /\ last_selected = 3

(***************************************************************************)
(* C23: a failed bus write ends the operation                              *)
(***************************************************************************)
\* C23: when a bus write of select_channel, init_display, clear_display,
\* display_pbm_image or display_card fails, the operation is over with the
\* bus error returned, and it issues no further write: every write is the
\* first of its operation or follows a write of that operation that
\* succeeded, so that nothing is written again after a failure.
C23_FailureEndsTheOperation ==
    /\ []((hw_pc > 0 /\ ~last_write.ok) => (hw_op = Idle /\ hw_ret = "Err"))
    /\ [][hw_pc' = hw_pc + 1 =>
             /\ hw_op # Idle
             /\ hw_pc = 0 \/ last_write.ok
             /\ ~last_write'.ok =>
                    /\ current_channel' = current_channel
                    /\ last_selected' = last_selected]_vars

\* display_card has returned the error of its 50th write, a panel write
C23_Witness ==
    /\ hw_called.name = "display_card"
    /\ hw_op = Idle
    /\ hw_ret = "Err"
    /\ hw_pc = 50
    /\ last_write.address = OLED_ADDRESS
    /\ ~last_write.ok

\* a hand refresh has ended and its caller has not yet taken the result
Refreshed ==
    /\ hw_called.name \in {"update_dealer_hand", "update_player_hand"}
    /\ hw_op = Idle
    /\ hw_ret # "none"

\* the positions of the side a hand refresh works on
SideOf(op) ==
    IF op.name = "update_dealer_hand"
    THEN <<"DealerCard1", "DealerCard2", "DealerCard3", "DealerCard4">>
    ELSE <<"PlayerCard1", "PlayerCard2", "PlayerCard3", "PlayerCard4">>

\* the last position a hand refresh serves: the last slot holding a card,
\* the fourth slot if the hand is empty
LastServed(op) == SideOf(op)[IF op.hand = <<>> THEN 4 ELSE Len(op.hand)]

\* C24: when a bus write fails during update_dealer_hand or
\* update_player_hand the refresh returns the error, and it still serves the
\* remaining positions of its side: it does not end before it has written to
\* the last position it has to clear or paint.
C24_FailureDoesNotBlockTheOtherPositions ==
    (Refreshed /\ hw_pc > 0 /\ ~last_write.ok) =>
        /\ hw_ret = "Err"
        /\ last_write.target = LastServed(hw_called)

\* display_card_with_image has ended for a card whose bitmap does not parse
ShownUnparsable ==
    /\ hw_called.name = "display_card_with_image"
    /\ hw_op = Idle
    /\ hw_ret # "none"
    /\ ~PBMImage_new(
           Assets[hw_called.build][get_card_image(hw_called.card).image]).ok

\* the procedural drawing of the card of the operation called last
Procedural == display_card(hw_called.card, hw_called.position)

\* C25: when the bitmap resolved for a card does not parse,
\* display_card_with_image still succeeds if no bus write fails, and what it
\* has written is the procedural drawing of that card on that panel: it ends
\* with the last write of display_card, the back pattern of a face-down card
\* or the face pattern of a face-up one.
C25_UnparsableBitmapFallsBack ==
    (ShownUnparsable /\ (hw_pc = 0 \/ last_write.ok)) =>
        /\ hw_ret = "Ok"
        /\ hw_pc = Len(Procedural)
        /\ last_write.bytes = Procedural[Len(Procedural)].bytes
        /\ last_write.target = hw_called.position

\* the operation called last renders a face-down card
RendersFaceDown ==
    /\ hw_called.name \in {"display_card_with_image", "display_card"}
    /\ ~hw_called.card.is_face_up

\* the same call for another face-down card
Twins ==
    {[hw_called EXCEPT !.card = other] :
         other \in {c \in HwCards : ~c.is_face_up}}

\* C26: rendering a face-down card writes nothing that depends on its suit
\* or rank: every bus write of display_card_with_image and of display_card
\* for a face-down card is the write the same call issues at that point for
\* any other face-down card, and the two calls issue as many writes; the
\* image path sends the hidden bitmap, the procedural path ends with the back
\* pattern of 89 bytes 0xFF.
C26_FaceDownCardsRenderAlike ==
    /\ [][(hw_pc' = hw_pc + 1 /\ RendersFaceDown) =>
             \A twin \in Twins :
                 /\ last_write'.address = PlanOf[twin][hw_pc'].address
                 /\ last_write'.bytes = PlanOf[twin][hw_pc'].bytes
                 /\ last_write'.target = PlanOf[twin][hw_pc'].target]_vars
    /\ [](RendersFaceDown =>
             \A twin \in Twins : Len(PlanOf[twin]) = Len(PlanOf[hw_called]))
    /\ []((RendersFaceDown /\ hw_op = Idle /\ hw_ret = "Ok") =>
             IF hw_called.name = "display_card"
             THEN last_write.bytes = <<\h40>> \o [k \in 1..89 |-> \hFF]
             ELSE LET hidden == Op("display_pbm_image", hw_called.position,
                                   NoCard,
                                   Assets[hw_called.build][HIDDEN_CARD])
                  IN  /\ hw_pc = Len(PlanOf[hidden])
                      /\ hw_pc > 0 => last_write.bytes = PlanOf[hidden][hw_pc].bytes)

\* display_card_with_image has painted a face-down King of Spades with the
\* hidden bitmap of a build in which every bitmap differs
C26_Witness ==
    /\ hw_called.name = "display_card_with_image"
    /\ hw_called.card = Card_new("Spades", "King", FALSE)
    /\ hw_called.build = "valid"
    /\ hw_op = Idle
    /\ hw_ret = "Ok"
    /\ hw_pc = 67
    /\ last_write.bytes =
           <<\h40>> \o SubSeq(to_display_buffer(PBMImage_new(Checkerboard),
                                                128, 64), 1009, 1024)

\* display_pbm_image was called last, for a bitmap that parses
PaintsBitmap ==
    /\ hw_called.name = "display_pbm_image"
    /\ Parsed[hw_called.image_data].ok

\* the display buffer of the bitmap of the operation called last
Painted == DisplayBuffer[hw_called.image_data]

\* C27: display_pbm_image for a bitmap that parses writes, in this order, one
\* byte with the bit of the position's channel to the multiplexer, the
\* column window 0..127, the page window 0..7, and then data writes of the
\* marker 0x40 and at most 16 bytes, the k-th carrying the k-th 16 bytes of
\* the display buffer; it returns Ok after the 64th, 1024 bytes sent.
C27_PaintSequence ==
    /\ [][(hw_pc' = hw_pc + 1 /\ PaintsBitmap /\ last_write'.ok) =>
             LET k == hw_pc' - 3
                 w == last_write'
             IN  /\ w.target = hw_called.position
                 /\ hw_pc' = 1 =>
                        /\ w.address = I2C_MUX_ADDRESS
                        /\ w.bytes = <<2^channel(hw_called.position)>>
                 /\ hw_pc' = 2 =>
                        /\ w.address = OLED_ADDRESS
                        /\ w.bytes = <<\h00, \h21, 0, 127>>
                 /\ hw_pc' = 3 =>
                        /\ w.address = OLED_ADDRESS
                        /\ w.bytes = <<\h00, \h22, 0, 7>>
                 /\ hw_pc' > 3 =>
                        /\ w.address = OLED_ADDRESS
                        /\ w.bytes[1] = \h40
                        /\ Len(w.bytes) - 1 <= 16
                        /\ Tail(w.bytes)
                               = SubSeq(Painted, 16 * (k - 1) + 1, 16 * k)
                 /\ hw_op' = Idle <=> hw_pc' = 3 + 64]_vars
    /\ []((PaintsBitmap /\ hw_op = Idle /\ hw_ret = "Ok") =>
             /\ hw_pc = 67
             /\ Len(Painted) = 1024)

\* the stripes have been painted on PlayerCard2: the last write carries
\* bytes 1009..1024 of their display buffer, which are not all alike
C27_Witness ==
    /\ hw_called.name = "display_pbm_image"
    /\ hw_called.image_data = Stripes
    /\ hw_called.position = "PlayerCard2"
    /\ hw_op = Idle
    /\ hw_ret = "Ok"
    /\ hw_pc = 67
    /\ last_selected = 5
    /\ Tail(last_write.bytes) = SubSeq(Painted, 1009, 1024)
    /\ \E i, j \in 2..17 : last_write.bytes[i] # last_write.bytes[j]

\* write i of a clear of position as the claim has it: the channel select,
\* the two window commands, then 1024 zero bytes in data writes of 0x40 and
\* 16 zeros, 64 writes in all
IsClearWrite(w, i, position) ==
    /\ w.target = position
    /\ i = 1 => (w.address = I2C_MUX_ADDRESS /\ w.bytes = <<2^channel(position)>>)
    /\ i = 2 => (w.address = OLED_ADDRESS /\ w.bytes = <<\h00, \h21, 0, 127>>)
    /\ i = 3 => (w.address = OLED_ADDRESS /\ w.bytes = <<\h00, \h22, 0, 7>>)
    /\ i > 3 => (/\ w.address = OLED_ADDRESS
                 /\ w.bytes = <<\h40>> \o [k \in 1..16 |-> 0]
                 /\ i <= 3 + 64)

\* C28: init_display writes the channel select, then the 25 bring-up
\* commands as [0x00, command], 0xAE first and 0xAF last, and then clears
\* the panel; clear_display and the clear of init_display write the channel
\* select, the column window 0..127, the page window 0..7 and then exactly
\* 1024 zero bytes, in writes of 0x40 and 16 zeros, and no bring-up command;
\* clear_display returns Ok when the 1024 bytes are written.
C28_InitAndClearSequence ==
    /\ [][(hw_pc' = hw_pc + 1 /\ hw_called.name = "clear_display"
           /\ last_write'.ok) =>
             /\ IsClearWrite(last_write', hw_pc', hw_called.position)
             /\ hw_op' = Idle <=> hw_pc' = 3 + 64]_vars
    /\ [][(hw_pc' = hw_pc + 1 /\ hw_called.name = "init_all_displays"
           /\ hw_pc' <= 1 + 25 + 3 + 64 /\ last_write'.ok) =>
             LET w == last_write'
             IN  /\ hw_pc' = 1 =>
                        /\ w.address = I2C_MUX_ADDRESS
                        /\ w.bytes = <<2^channel("DealerCard1")>>
                 /\ hw_pc' \in 2..26 =>
                        /\ w.address = OLED_ADDRESS
                        /\ w.bytes = <<\h00, init_commands[hw_pc' - 1]>>
                        /\ hw_pc' = 2 => w.bytes[2] = \hAE
                        /\ hw_pc' = 26 => w.bytes[2] = \hAF
                 /\ hw_pc' > 26 =>
                        IsClearWrite(w, hw_pc' - 26, "DealerCard1")]_vars
    /\ []((hw_called.name = "init_all_displays" /\ hw_pc > 1 + 25 + 3 + 64) =>
             last_write.target # "DealerCard1")

\* a hand refresh was called last
Refreshing == hw_called.name \in {"update_dealer_hand", "update_player_hand"}

\* the multiplexer channels of the side of a hand refresh
SideChannels(op) == IF op.name = "update_dealer_hand" THEN 0..3 ELSE 4..7

\* C29: update_dealer_hand writes only to the dealer's panels, under the
\* multiplexer channels 0..3, and update_player_hand only to the player's,
\* under 4..7.  The four clears of the side, slot after slot, come before
\* the first paint; then the slots below card_count are painted in slot
\* order, slot i under the i-th channel of the side with the bitmap of the
\* card at hand index i, and no other slot is: the refresh returns Ok after
\* four clears and card_count paints.
C29_RefreshTouchesItsSideInOrder ==
    /\ [][(hw_pc' = hw_pc + 1 /\ Refreshing) =>
             LET clear_len == 3 + 128
                 paint_len == 3 + 64
                 clearing == hw_pc' <= 4 * clear_len
                 at == IF clearing THEN hw_pc' - 1
                       ELSE hw_pc' - (4 * clear_len) - 1
                 len == IF clearing THEN clear_len ELSE paint_len
                 slot == (at \div len) + 1
                 i == (at % len) + 1
                 side == SideOf(hw_called)
                 w == last_write'
             IN  /\ ~clearing => slot <= card_count(hw_called.hand)
                 /\ w.target = side[slot]
                 /\ channel(side[slot]) \in SideChannels(hw_called)
                 /\ i = 1 =>
                        /\ w.address = I2C_MUX_ADDRESS
                        /\ w.bytes = <<2^channel(side[slot])>>
                 /\ i > 1 =>
                        /\ w.address = OLED_ADDRESS
                        /\ current_channel = channel(side[slot])
                        /\ last_selected = channel(side[slot])
                 /\ (i > 3 /\ clearing) =>
                        w.bytes = <<\h40>> \o [k \in 1..16 |-> 0]
                 /\ (i > 3 /\ ~clearing) =>
                        LET card == hw_called.hand[slot]
                            image_data == Assets[hw_called.build][
                                              get_card_image(card).image]
                        IN  w.bytes = <<\h40>> \o
                                SubSeq(DisplayBuffer[image_data],
                                       16 * (i - 4) + 1, 16 * (i - 3))]_vars
    /\ []((Refreshed /\ hw_ret = "Ok") =>
             hw_pc = 4 * (3 + 128) + card_count(hw_called.hand) * (3 + 64))

\* C30: for every pixel grid, parsing its P4 encoding (header, then a row
\* per ceil(width / 8) bytes, most significant bit first, padded with zero
\* bits) returns an image of the grid's width, height and pixels, whatever
\* the bytes of the payload are, and parsing its P1 encoding returns the same
\* image.
C30_EncodingsParseToTheGrid ==
    \A grid \in Grids :
        (pbm_data = P4Encoding(grid) \/ pbm_data = P1Encoding(grid)) =>
            /\ pbm_image.ok
            /\ pbm_image.width = grid.width
            /\ pbm_image.height = grid.height
            /\ pbm_image.pixels = grid.pixels

\* the source pixel at (x, y) is on
SourcePixel(image, x, y) ==
    /\ x < image.width
    /\ y < image.height
    /\ image.pixels[y * image.width + x + 1]

\* C31: for every image the parser accepts, to_display_buffer(128, 64)
\* returns 1024 bytes, and bit n of the byte at page * 128 + col is set iff
\* the source pixel at (col * width div 128, (page * 8 + n) * height div 64)
\* is on, the products being exact.
C31_DisplayBufferSamplesExactly ==
    pbm_buffer.called =>
        /\ ~pbm_buffer.panicked
        /\ Len(pbm_buffer.bytes) = 1024
        /\ \A page \in 0..7, col \in 0..127, n \in 0..7 :
               ((pbm_buffer.bytes[page * 128 + col + 1] \div 2^n) % 2 = 1)
               <=> SourcePixel(pbm_image,
                               (col * pbm_image.width) \div 128,
                               ((page * 8 + n) * pbm_image.height) \div 64)

\* PBMImage::new has returned
ParseReturned == pbm_data # <<>>

\* C32: PBMImage::new fails with BufferFull whenever the header's width
\* times its height exceeds 8192, whatever follows the header, and every
\* image it returns holds exactly width * height pixels, at most 8192.
C32_TooManyPixelsIsBufferFull ==
    /\ \A format \in {49, 52}, dims \in OversizedDims,
          payload \in OversizedPayloads :
           pbm_data = Header(format, dims[1], dims[2]) \o payload =>
               pbm_image = PBMError("BufferFull")
    /\ (ParseReturned /\ pbm_image.ok) =>
           /\ Len(pbm_image.pixels) = pbm_image.width * pbm_image.height
           /\ Len(pbm_image.pixels) <= 8192

\* the characters of a payload that are not whitespace
Characters(payload) == SelectSeq(payload, LAMBDA byte : byte \notin {32, 10})

\* what a P1 payload without comments gives for total_pixels pixels: its
\* first total_pixels characters read as pixels, or InvalidFormat if one of
\* them is missing or is not '0', '1' or '2'
P1Expected(width, height, payload) ==
    LET total_pixels == width * height
        read == Characters(payload)
    IN  IF /\ Len(read) >= total_pixels
           /\ \A i \in 1..total_pixels : read[i] \in {48, 49, 50}
        THEN [ok |-> TRUE, error |-> "none", width |-> width,
              height |-> height,
              pixels |-> [i \in 1..total_pixels |-> read[i] \in {49, 50}]]
        ELSE PBMError("InvalidFormat")

\* C33: in P1 each pixel is one character read after skipping whitespace
\* and comments, '0' off, '1' and '2' on, any other character
\* InvalidFormat; a payload that ends before width * height pixels (P1) or
\* height * ceil(width / 8) bytes (P4) fails with InvalidFormat, and no
\* image is returned for it.
C33_PayloadCharactersAndTruncation ==
    /\ \A dims \in P1Dims, payload \in P1Payloads \ {Commented} :
           pbm_data = Header(49, dims[1], dims[2]) \o payload =>
               pbm_image = P1Expected(dims[1], dims[2], payload)
    /\ \A dims \in P1Dims :
           pbm_data = Header(49, dims[1], dims[2]) \o Commented =>
               /\ pbm_image.ok
               /\ pbm_image.pixels = <<TRUE, FALSE>>
    /\ pbm_data \in P4Truncated => pbm_image = PBMError("InvalidFormat")

\* "P1\n2 1\n2 0" has been parsed: the '2' is a pixel that is on
C33_Witness ==
    /\ pbm_data = Header(49, 2, 1) \o <<50, 32, 48>>
    /\ pbm_image.ok
    /\ pbm_image.pixels = <<TRUE, FALSE>>

\* to_display_buffer(128, 64) has returned for a 1 x 1 image
OnePixelScaled ==
    pbm_buffer.called /\ pbm_image.width = 1 /\ pbm_image.height = 1

\* C34: to_display_buffer(128, 64) of a 1 x 1 bitmap returns 1024 bytes,
\* all 0xFF if the pixel is on and all 0x00 if it is off.
C34_OnePixelFillsTheBuffer ==
    OnePixelScaled =>
        /\ ~pbm_buffer.panicked
        /\ Len(pbm_buffer.bytes) = 1024
        /\ \A i \in 1..1024 :
               pbm_buffer.bytes[i] = IF pbm_image.pixels[1] THEN \hFF ELSE 0

\* the buffer of the 1 x 1 bitmap whose pixel is on
C34_Witness ==
    /\ OnePixelScaled
    /\ pbm_image.pixels = <<TRUE>>
    /\ pbm_buffer.bytes[1024] = \hFF

\* C35: every write to a panel is a command write of exactly the two bytes
\* 0x00 and an opcode, or a data write that begins with 0x40; no command
\* write carries more than one byte after the 0x00, the column and page
\* window commands included.
C35_CommandWritesAreTwoBytes ==
    last_write.address = OLED_ADDRESS =>
        \/ Len(last_write.bytes) = 2 /\ last_write.bytes[1] = \h00
        \/ Len(last_write.bytes) >= 1 /\ last_write.bytes[1] = \h40

\* C36: under the game loop, the player pressing hit or stand whenever the
\* loop waits in PlayerTurn, every game that leaves WaitingForStart reaches
\* GameOver, after at most 3 player_hit calls and at most 3
\* dealer_draw_card calls; in every reachable DealerDrawing state the dealer
\* total is below 17, and each dealer_draw_card call there adds a card to
\* the dealer's hand or ends the game.
C36_EveryGameEnds ==
    /\ (state = "DealerDealing") ~> (state = "GameOver")
    /\ [](calls.player_hit <= 3 /\ calls.dealer_draw_card <= 3)
    /\ [](state = "DealerDrawing" =>
              value(dealer_hand) < 17 /\ dealer_needs_card(Game))
    /\ [][(state = "DealerDrawing" /\ last_call' = "dealer_draw_card"
            /\ calls' # calls) =>
              \/ Len(dealer_hand') = Len(dealer_hand) + 1
              \/ state' = "GameOver"]_vars

\* a game that ended after the dealer's third dealer_draw_card call, the
\* dealer holding four cards
C36_Witness ==
    /\ state = "GameOver"
    /\ calls.dealer_draw_card = 3
    /\ Len(dealer_hand) = 4

\* the dealer scores the last loop iteration showed while the dealer's cards
\* were not yet revealed: the iteration made one of the calls that come
\* before the reveal and the cards are still unrevealed after it
ShownBeforeReveal ==
    IF /\ last_call \in {"deal_initial_cards", "player_hit", "player_has_21",
                         "player_stand", "start_dealer_turn"}
       /\ ~dealer_cards_revealed
    THEN {screens[k].dealer_score : k \in 1..Len(screens)} \ {None}
    ELSE {}

\* C37: under the game loop every dealer score handed to the status display
\* before the dealer's cards are revealed is the same whatever the rank of
\* the face-down card: it is the sum of the face-up dealer cards alone,
\* also on the screen shown after a hit that busts the player or meets the
\* 4-card cap.
C37_ShownScoreHidesTheFaceDownCard ==
    \A score \in ShownBeforeReveal : score = face_up_sum(dealer_hand)

\* C38: in every state reached after start_game, the deck and the two hands
\* hold 52 cards together: every card popped from the deck is in a hand,
\* also when the hand that draws already holds four cards.
C38_EveryPoppedCardIsInAHand ==
    state # "WaitingForStart" =>
        Len(deck) + Len(player_hand) + Len(dealer_hand) = 52

\* C39: in a game driven by the game loop at most 10 cards are popped from
\* the deck of 52, so Deck::draw never returns None: player_hit called in
\* PlayerTurn returns true, and dealer_draw_card returns false only if it
\* is called outside DealerDrawing or with a dealer total of 17 or more.
C39_TheDeckNeverRunsOut ==
    /\ [](state # "WaitingForStart" => 52 - Len(deck) <= 10)
    /\ [][(last_call' = "player_hit" /\ calls' # calls
            /\ state = "PlayerTurn") => ret' = "true"]_vars
    /\ [][(last_call' = "dealer_draw_card" /\ calls' # calls
            /\ ret' = "false") =>
              state # "DealerDrawing" \/ value(dealer_hand) >= 17]_vars
    /\ [][(calls' # calls /\ calls' # NoCalls) => draw(deck).some]_vars

\* the longest game: three hits and three dealer draws, the last of each
\* at the 4-card cap, have popped ten cards
C39_Witness ==
    /\ last_call = "dealer_draw_card"
    /\ ret = "true"
    /\ calls = [player_hit |-> 3, dealer_draw_card |-> 3]
    /\ Len(deck) = 42

\* C40: under any sequence of public calls, whenever the state is GameOver
\* the result is PlayerWins, DealerWins or Push, never InProgress.
C40_GameOverHasAResult ==
    state = "GameOver" => result \in {"PlayerWins", "DealerWins", "Push"}

\* a game ended by the dealer's draw at the 4-card cap, the totals
\* compared by determine_winner with the dealer still below 17
C40_Witness ==
    /\ state = "GameOver"
    /\ last_call = "dealer_draw_card"
    /\ Len(dealer_hand) = 4
    /\ value(dealer_hand) < 17
    /\ result \in {"PlayerWins", "DealerWins", "Push"}

====
